---- MODULE Spec2Model ----
(***************************************************************************)
(* Liquid-glass UI studio: the timeline state resolver of                  *)
(* DashboardComposition.tsx and the render gate it forms with App.tsx.     *)
(*                                                                         *)
(* Numbers.  Spring progress, netExpansion and sizeMultiplier are fixed    *)
(* point with One = 1.0.  Positions are in half pixels, so that the        *)
(* default origin (width - 259) / 2 is an integer.                         *)
(***************************************************************************)
EXTENDS Integers, Sequences, FiniteSets, TLC

VARIABLES
    events,         \* timelineData.events, the imported document's event list
    fps,            \* useVideoConfig().fps
    width,          \* useVideoConfig().width
    height,         \* useVideoConfig().height
    frame,          \* useCurrentFrame()
    timelineState,  \* the timelineState prop handed to <App/>
    firstSeen,      \* history: what each frame resolved to the first time
    phase,          \* where the React commit of <App/> stands
    renderer,       \* the MultiPassRenderer of the renderer effect
    renderRef,      \* renderRef.current is doRender
    texture,        \* the promise of loadTextureFromURL
    bgTextureReady, \* stateRef.current.bgTextureReady
    panelPos,       \* stateRef.current.panelPos, in half pixels
    panelSize,      \* stateRef.current.panelSize
    openTokens,     \* delayRender handles not yet continued
    renders,        \* the pass-graph executions so far, oldest first
    readySignals,   \* calls of onReady so far
    seeks,          \* frames the host has seeked to after the mount
    file,           \* timeline-data.json as the API plugin reads and writes it
    loadState,      \* the editor's fetch(API_URL) of the mount effect
    rows,           \* the editor's rows state
    undoStack,      \* the editor's undoStack state, oldest snapshot first
    redoStack,      \* the editor's redoStack state
    isDirty,        \* the editor's isDirty state
    editorFps,      \* the editor's fps state
    durationFrames, \* the editor's durationFrames state
    editRun,        \* history: the row lists replaced by the edits made in a
                    \* row since the last load, undo or redo, oldest first
    rowsRef,        \* rowsRef.current: the rows of the last render
    undoStackRef,   \* undoStackRef.current: the undoStack of the last render
    redoStackRef,   \* redoStackRef.current: the redoStack of the last render
    request,        \* the body of the save whose POST is in flight, if any
    lastSynced,     \* history: the document last loaded or saved, if any
    stored,         \* the text of timeline-data.json, if it can be read
    upload,         \* the POST the plugin is receiving, if any
    responses,      \* the plugin's answers so far, oldest first
    innerWidth,     \* window.innerWidth
    canvasInfo,     \* stateRef.current.canvasInfo
    framebuffers,   \* the size the renderer's framebuffers are allocated at
    orbitalPanelsRef,   \* orbitalPanelsRef.current, the panels doRender draws
    panelsRef,      \* the OrbitalSystem's panelsRef.current
    settings,       \* the settings state (width and height of the panel)
    sizeSpring,     \* sizeSpring.width.get(), sizeSpring.height.get()
    drag            \* drag.current of the OrbitalSystem: the press, if any

resolverVars == << events, fps, width, height, frame, timelineState >>
gateVars ==
    << phase, renderer, renderRef, texture, bgTextureReady, panelPos,
       panelSize, openTokens, renders, readySignals, seeks >>
editorRefs == << rowsRef, undoStackRef, redoStackRef >>
serverVars == << stored, upload, responses >>
editorVars ==
    << file, loadState, rows, undoStack, redoStack, isDirty, editorFps,
       durationFrames, editRun, editorRefs, request, lastSynced,
       serverVars >>
liveVars ==
    << innerWidth, canvasInfo, framebuffers, orbitalPanelsRef, panelsRef,
       settings, sizeSpring, drag >>
\* gateVars without phase
gateRest ==
    << renderer, renderRef, texture, bgTextureReady, openTokens, renders,
       panelPos, panelSize, readySignals, seeks >>
vars == << resolverVars, firstSeen, gateVars, editorVars, liveVars >>

(***************************************************************************)
(* Bounds of the model.                                                    *)
(***************************************************************************)
MaxEvents == 3      \* longest event list drawn
MaxFrame == 14      \* last frame queried
ChainMaxFrame == 200    \* last frame queried on the chain of section 8
HistoryMaxEvents == 2   \* longest event list drawn when history is recorded
HistoryMaxFrame == 3    \* last frame queried when history is recorded
GateMaxEvents == 1      \* longest event list drawn for a render session
GateMaxFrame == 3       \* last frame of a render session
MaxSeeks == 2           \* frames the host seeks to after the mount
ConfigMaxEvents == 2    \* longest event list drawn with invalid spring configs
ConfigMaxFrame == 3     \* last frame queried with invalid spring configs
MaxRows == 52           \* most rows the editor's list grows to
MaxRedo == 2            \* most snapshots undone and not yet redone
MaxFileEvents == 2      \* longest event list of a document on disk
MaxRenders == 2         \* most pass-graph executions of a live session
MaxEdits == 2           \* most snapshots on the two stacks of an edit session
MaxEditRows == 3        \* most rows of an edit session
MaxSaveEdits == 1       \* most snapshots on the two stacks while saving
MaxRequests == 3        \* most requests the API plugin answers
MaxChunk == 7           \* most bytes of one data event

(***************************************************************************)
(* Program constants.                                                      *)
(***************************************************************************)
One == 1000                         \* spring(... from: 0, to: 1): the value 1.0
canvasWidth == 3840                 \* DESIGN_SYSTEM_DEFAULTS.canvasWidth
canvasHeight == 536                 \* DESIGN_SYSTEM_DEFAULTS.canvasHeight
settingsWidth == 259                \* LIQUID_GLASS_DEFAULTS.width
settingsHeight == 124               \* LIQUID_GLASS_DEFAULTS.height
GRID_SIZE == 60
MAX_UNDO == 50
DEFAULT_SPRING == [stiffness |-> 280, damping |-> 24, mass |-> 1]
BouncySpring == [stiffness |-> 900, damping |-> 20, mass |-> 1]

Max(a, b) == IF a >= b THEN a ELSE b
Min(a, b) == IF a <= b THEN a ELSE b

(***************************************************************************)
(* remotion's spring({fps, frame, config, from: 0, to: 1}): the damped     *)
(* oscillator advanced once per frame, sampled here per (fps, config) and  *)
(* rounded to 1/One.  Under-damped configs overshoot above One before they *)
(* settle at One.                                                          *)
(***************************************************************************)
SpringCurve(fps_, config) ==
    CASE fps_ = 15 /\ config = DEFAULT_SPRING ->
           << 0, 335, 762, 981, 1038, 1030, 1012, 1002, 999, 999, 999, 1000 >>
      [] fps_ = 15 /\ config = BouncySpring ->
           << 0, 944, 1292, 943, 933, 1033, 1010, 988, 1000, 1003, 999, 999,
              1000 >>
      [] fps_ = 60 /\ config = DEFAULT_SPRING ->
           << 0, 34, 118, 231, 355, 480, 597, 700, 789, 862, 920, 963, 995,
              1017, 1030, 1037, 1039, 1038, 1035, 1031, 1026, 1021, 1017,
              1012, 1009, 1006, 1004, 1002, 1000, 999, 999, 999, 998, 998,
              999, 999, 999, 999, 999, 999, 1000 >>
      [] fps_ = 60 /\ config = BouncySpring ->
           << 0, 110, 374, 694, 986, 1199, 1310, 1325, 1268, 1171, 1066, 977,
              918, 893, 897, 922, 955, 989, 1015, 1031, 1036, 1032, 1022,
              1011, 1000, 993, 989, 988, 990, 994, 998, 1001, 1003, 1004,
              1004, 1003, 1002, 1000, 999, 999, 999, 999, 999, 1000 >>

\* Number.NaN, which no fixed-point value of the model equals
NaN == -1000000000

\* spring() does not validate config: the oscillator is advanced with the
\* values given.  A negative stiffness or a mass <= 0 makes omega0 and zeta
\* NaN or infinite and the position NaN from the first frame on; with
\* stiffness 0 the critically damped branch leaves the position at `from`.
spring(fps_, f, config) ==
    IF config.stiffness < 0 \/ config.mass <= 0 THEN NaN
    ELSE IF config.stiffness = 0 THEN 0
    ELSE LET curve == SpringCurve(fps_, config)
             frameClamped == Max(0, f)
         IN  IF frameClamped < Len(curve) THEN curve[frameClamped + 1]
             ELSE One

\* e.spring ?? DEFAULT_SPRING; an absent spring field is the empty sequence
SpringOf(e) == IF e.spring = << >> THEN DEFAULT_SPRING ELSE e.spring[1]

\* Mutant: the largest spring term instead of the sum of the terms
RECURSIVE SpringSum_Max(_, _, _)
SpringSum_Max(evts, fps_, f) ==
    IF evts = << >> THEN 0
    ELSE Max(SpringSum_Max(SubSeq(evts, 1, Len(evts) - 1), fps_, f),
             spring(fps_, f - evts[Len(evts)].frame, SpringOf(evts[Len(evts)])))

\* Array.prototype.reduce((sum, e) => sum + spring(...), 0)
RECURSIVE SpringSum(_, _, _)
SpringSum(evts, fps_, f) ==
    IF evts = << >> THEN 0
    ELSE LET sum == SpringSum(SubSeq(evts, 1, Len(evts) - 1), fps_, f)
             term == spring(fps_, f - evts[Len(evts)].frame,
                            SpringOf(evts[Len(evts)]))
         IN  IF sum = NaN \/ term = NaN THEN NaN ELSE sum + term

\* Array.prototype.reduce((max, e) => Math.max(max, e.frame), -1)
RECURSIVE LastFrame(_)
LastFrame(evts) ==
    IF evts = << >> THEN -1
    ELSE Max(LastFrame(SubSeq(evts, 1, Len(evts) - 1)), evts[Len(evts)].frame)

IsGlass(e) == e.componentId = "GlassPanel"
IsExpand(e) == e.action = "Expand"
IsCollapse(e) == e.action = "Collapse"
IsSetPosition(e) == e.action = "SetPosition"

\* Mutant: events are not filtered by frame
glassEvents_NoFrameFilter(evts, f) == SelectSeq(evts, IsGlass)

glassEvents(evts, f) == SelectSeq(evts, LAMBDA e : IsGlass(e) /\ e.frame <= f)
expandEvents(evts, f) == SelectSeq(glassEvents(evts, f), IsExpand)
collapseEvents(evts, f) == SelectSeq(glassEvents(evts, f), IsCollapse)

expandSum(evts, fps_, f) == SpringSum(expandEvents(evts, f), fps_, f)
collapseSum(evts, fps_, f) == SpringSum(collapseEvents(evts, f), fps_, f)

\* Mutant: netExpansion = Math.max(0, expandSum - collapseSum), no upper clamp
netExpansion_NoUpperClamp(evts, fps_, f) ==
    Max(0, expandSum(evts, fps_, f) - collapseSum(evts, fps_, f))

\* Math.max(0, Math.min(1, expandSum - collapseSum)); NaN stays NaN
netExpansion(evts, fps_, f) ==
    LET e == expandSum(evts, fps_, f)
        c == collapseSum(evts, fps_, f)
    IN  IF e = NaN \/ c = NaN THEN NaN ELSE Max(0, Min(One, e - c))

\* Mutant: the progress never runs backwards from the frame rendered before
sizeMultiplier_Carried(evts, fps_, f) ==
    One + (netExpansion(evts, fps_, Max(f, frame)) * 8) \div 10

\* 1 + netExpansion * 0.8
sizeMultiplier(evts, fps_, f) ==
    LET n == netExpansion(evts, fps_, f)
    IN  IF n = NaN THEN NaN ELSE One + (n * 8) \div 10

\* Mutant: >= in place of >
isExpanded_OrEqual(evts, f) ==
    LastFrame(expandEvents(evts, f)) >= LastFrame(collapseEvents(evts, f))

lastExpandFrame(evts, f) == LastFrame(expandEvents(evts, f))
lastCollapseFrame(evts, f) == LastFrame(collapseEvents(evts, f))
isExpanded(evts, f) == lastExpandFrame(evts, f) > lastCollapseFrame(evts, f)

\* Array.prototype.sort((a, b) => a.frame - b.frame): stable, so events of
\* one frame keep their document order
RECURSIVE InsertByFrame(_, _)
InsertByFrame(sorted, e) ==
    IF sorted = << >> THEN << e >>
    ELSE IF sorted[Len(sorted)].frame <= e.frame THEN Append(sorted, e)
    ELSE Append(InsertByFrame(SubSeq(sorted, 1, Len(sorted) - 1), e),
                sorted[Len(sorted)])

RECURSIVE SortByFrame(_)
SortByFrame(evts) ==
    IF evts = << >> THEN << >>
    ELSE InsertByFrame(SortByFrame(SubSeq(evts, 1, Len(evts) - 1)),
                       evts[Len(evts)])

\* Mutant: SetPosition events of every component
firedPositionEvents_AnyComponent(evts, f) ==
    SortByFrame(SelectSeq(evts, LAMBDA e : IsSetPosition(e) /\ e.frame <= f))

firedPositionEvents(evts, f) ==
    SortByFrame(SelectSeq(evts,
        LAMBDA e : IsGlass(e) /\ IsSetPosition(e) /\ e.frame <= f))

\* (width - 259) / 2 and (height - 124) / 2, in half pixels
defaultX(w) == w - 259
defaultY(h) == h - 124

\* Number(e.params.x ?? dflt), in half pixels; params holds pixels
ParamOr(e, key, dflt) ==
    IF key \in DOMAIN e.params THEN 2 * e.params[key] ELSE dflt

\* start + (target - start) * t
Lerp(start, target, t) ==
    IF t = NaN THEN NaN ELSE start + ((target - start) * t) \div One

\* An optional number is << >> (undefined) or << n >>
Undefined == << >>
Some(n) == << n >>

\* Mutant: the chain starts at the first fired event, not the one before last
panelX_FromFirst(evts, fps_, w, f) ==
    LET fired == firedPositionEvents(evts, f)
    IN  IF Len(fired) > 0
        THEN LET latest == fired[Len(fired)]
                 targetX == ParamOr(latest, "x", defaultX(w))
                 startX == IF Len(fired) > 1
                           THEN ParamOr(fired[1], "x", defaultX(w))
                           ELSE defaultX(w)
                 t == spring(fps_, f - latest.frame, SpringOf(latest))
             IN  Some(Lerp(startX, targetX, t))
        ELSE Undefined

panelX(evts, fps_, w, f) ==
    LET fired == firedPositionEvents(evts, f)
    IN  IF Len(fired) > 0
        THEN LET latest == fired[Len(fired)]
                 targetX == ParamOr(latest, "x", defaultX(w))
                 startX == IF Len(fired) > 1
                           THEN ParamOr(fired[Len(fired) - 1], "x", defaultX(w))
                           ELSE defaultX(w)
                 t == spring(fps_, f - latest.frame, SpringOf(latest))
             IN  Some(Lerp(startX, targetX, t))
        ELSE Undefined

\* Mutant: targetY read from params.x
panelY_TargetFromX(evts, fps_, h, f) ==
    LET fired == firedPositionEvents(evts, f)
    IN  IF Len(fired) > 0
        THEN LET latest == fired[Len(fired)]
                 targetY == ParamOr(latest, "x", defaultY(h))
                 startY == IF Len(fired) > 1
                           THEN ParamOr(fired[Len(fired) - 1], "y", defaultY(h))
                           ELSE defaultY(h)
                 t == spring(fps_, f - latest.frame, SpringOf(latest))
             IN  Some(Lerp(startY, targetY, t))
        ELSE Undefined

panelY(evts, fps_, h, f) ==
    LET fired == firedPositionEvents(evts, f)
    IN  IF Len(fired) > 0
        THEN LET latest == fired[Len(fired)]
                 targetY == ParamOr(latest, "y", defaultY(h))
                 startY == IF Len(fired) > 1
                           THEN ParamOr(fired[Len(fired) - 1], "y", defaultY(h))
                           ELSE defaultY(h)
                 t == spring(fps_, f - latest.frame, SpringOf(latest))
             IN  Some(Lerp(startY, targetY, t))
        ELSE Undefined

\* The timelineState prop DashboardComposition computes for one frame
DashboardComposition(evts, fps_, w, h, f) ==
    [ sizeMultiplier |-> sizeMultiplier(evts, fps_, f),
      isExpanded |-> isExpanded(evts, f),
      panelX |-> panelX(evts, fps_, w, f),
      panelY |-> panelY(evts, fps_, h, f) ]

(***************************************************************************)
(* Documents drawn: event lists over a small universe of events.           *)
(***************************************************************************)
Event(f, c, a, p, s) ==
    [ frame |-> f, componentId |-> c, action |-> a, params |-> p, spring |-> s ]
NoParams == [k \in {} |-> 0]

SizeEvents ==
    { Event(0, "GlassPanel", "Expand", NoParams, << >>),
      Event(3, "GlassPanel", "Expand", NoParams, << BouncySpring >>),
      Event(0, "GlassPanel", "Collapse", NoParams, << >>),
      Event(3, "GlassPanel", "Collapse", NoParams, << >>) }
PositionEvents ==
    { Event(0, "GlassPanel", "SetPosition", [x |-> 0, y |-> 0], << >>),
      Event(1, "GlassPanel", "SetPosition", [y |-> 50], << >>),
      Event(3, "GlassPanel", "SetPosition", [x |-> 100, y |-> 200],
            << BouncySpring >>) }
InertEvents ==
    { Event(0, "Other", "Expand", NoParams, << >>),
      Event(1, "GlassPanel", "Fade", NoParams, << >>),
      Event(0, "Other", "SetPosition", [x |-> 100, y |-> 200], << >>) }
EventKinds == SizeEvents \cup PositionEvents \cup InertEvents

Documents == UNION { [1..n -> EventKinds] : n \in 0..MaxEvents }
Frames == 0..MaxFrame
HistoryDocuments == UNION { [1..n -> EventKinds] : n \in 0..HistoryMaxEvents }
HistoryFrames == 0..HistoryMaxFrame

\* The chain of section 8: 10 -> (0,0), 50 -> (100,0), 90 -> (100,200)
ChainEvent1 == Event(10, "GlassPanel", "SetPosition", [x |-> 0, y |-> 0], << >>)
ChainEvent2 == Event(50, "GlassPanel", "SetPosition", [x |-> 100, y |-> 0], << >>)
ChainEvent3 ==
    Event(90, "GlassPanel", "SetPosition", [x |-> 100, y |-> 200], << >>)
ChainDocument == << ChainEvent1, ChainEvent2, ChainEvent3 >>
ChainEvents == { ChainEvent1, ChainEvent2, ChainEvent3 }
ChainDocuments ==
    { d \in UNION { [1..n -> ChainEvents] : n \in 0..3 } :
        \A i, j \in DOMAIN d : i # j => d[i] # d[j] }
ChainFrames == 0..ChainMaxFrame

(***************************************************************************)
(* The timeline editor (timeline-editor/src/App.tsx) and the API plugin    *)
(* that serves and stores timeline-data.json.  A row is modelled by its id *)
(* and frame; a number that may be missing is << >> or << n >>.            *)
(***************************************************************************)
Row(id, f) == [id |-> id, frame |-> f]
Document(f, d, evts) ==
    [json |-> TRUE, fps |-> f, durationFrames |-> d, events |-> evts]
\* a file the GET handler cannot read, or whose text r.json() cannot parse
Unreadable ==
    [json |-> FALSE, fps |-> Undefined, durationFrames |-> Undefined,
     events |-> << >>]

\* No request reaches the API plugin
NoServer ==
    /\ stored = Undefined
    /\ upload = Undefined
    /\ responses = << >>

\* The editor is not part of the session
NoEditor ==
    /\ file = Unreadable
    /\ loadState = "none"
    /\ rows = << >>
    /\ undoStack = << >>
    /\ redoStack = << >>
    /\ isDirty = FALSE
    /\ editorFps = Some(60)
    /\ durationFrames = Some(360)
    /\ editRun = << >>
    /\ rowsRef = << >>
    /\ undoStackRef = << >>
    /\ redoStackRef = << >>
    /\ request = Undefined
    /\ lastSynced = Undefined
    /\ NoServer

(***************************************************************************)
(* App.tsx in render mode: the timelineState layout effect, the renderer   *)
(* effect with its texture load, and the delayRender handles of            *)
(* DashboardComposition.                                                   *)
(***************************************************************************)
TextureToken == [kind |-> "Loading texture", frame |-> -1]
FrameToken(f) == [kind |-> "Frame", frame |-> f]

\* timelineModeRef.current = !!timelineState; without the prop timelineState
\* is undefined
timelineModeRef == DOMAIN timelineState # {}

\* Math.round(n / d) for n >= 0
RoundDiv(n, d) == (2 * n + d) \div (2 * d)

\* Math.round(settings.width * timelineState.sizeMultiplier), and height
LayoutSize(ts) ==
    [ width |-> RoundDiv(settings.width * ts.sizeMultiplier, One),
      height |-> RoundDiv(settings.height * ts.sizeMultiplier, One) ]

\* panelX if defined, else (viewportSize.width - w) / 2; in half pixels
LayoutPos(ts, w, h) ==
    [ x |-> IF ts.panelX # Undefined THEN ts.panelX[1]
            ELSE w - LayoutSize(ts).width,
      y |-> IF ts.panelY # Undefined THEN ts.panelY[1]
            ELSE h - LayoutSize(ts).height ]

\* window.innerWidth / ASPECT_RATIO, for the widths drawn a whole number
AspectHeight(w) == (w * canvasHeight) \div canvasWidth

\* cInfo.width * cInfo.dpr, cInfo.height * cInfo.dpr
Resolution(cInfo) ==
    [ width |-> cInfo.width * cInfo.dpr, height |-> cInfo.height * cInfo.dpr ]

\* posSpring.get(): no handler starts posRef, the spring rests at `from`
posSpring == [x |-> 2 * (GRID_SIZE * 2), y |-> 2 * GRID_SIZE]

\* The pass list handed to new MultiPassRenderer
PassNames == << "bgPass", "vBlurPass", "hBlurPass", "mainPass" >>

\* Mutant: the horizontal blur is declared before the vertical blur
PassList_HBlurFirst ==
    << [ name |-> "bgPass", inputs |-> {}, outputToScreen |-> FALSE ],
       [ name |-> "hBlurPass",
         inputs |-> { [uniform |-> "u_prevPassTexture", pass |-> "vBlurPass"] },
         outputToScreen |-> FALSE ],
       [ name |-> "vBlurPass",
         inputs |-> { [uniform |-> "u_prevPassTexture", pass |-> "bgPass"] },
         outputToScreen |-> FALSE ],
       [ name |-> "mainPass",
         inputs |-> { [uniform |-> "u_blurredBg", pass |-> "hBlurPass"],
                      [uniform |-> "u_bg", pass |-> "bgPass"] },
         outputToScreen |-> TRUE ] >>

PassList ==
    << [ name |-> "bgPass", inputs |-> {}, outputToScreen |-> FALSE ],
       [ name |-> "vBlurPass",
         inputs |-> { [uniform |-> "u_prevPassTexture", pass |-> "bgPass"] },
         outputToScreen |-> FALSE ],
       [ name |-> "hBlurPass",
         inputs |-> { [uniform |-> "u_prevPassTexture", pass |-> "vBlurPass"] },
         outputToScreen |-> FALSE ],
       [ name |-> "mainPass",
         inputs |-> { [uniform |-> "u_blurredBg", pass |-> "hBlurPass"],
                      [uniform |-> "u_bg", pass |-> "bgPass"] },
         outputToScreen |-> TRUE ] >>

\* MultiPassRenderer.render, execution number n: the passes are run in
\* declared order.  A pass draws to the screen or to its own framebuffer; an
\* input is the colour attachment of the pass it names, which holds what
\* that pass drew in this execution if it has run already, what it drew in
\* execution n - 1 else, and nothing (execution 0) before any execution.
render(passList, n) ==
    [ i \in DOMAIN passList |->
        [ name |-> passList[i].name,
          target |-> IF passList[i].outputToScreen THEN "screen"
                     ELSE "framebuffer",
          reads |-> { [ uniform |-> inp.uniform,
                        pass |-> inp.pass,
                        execution |->
                            IF \E j \in 1..(i - 1) :
                                   /\ passList[j].name = inp.pass
                                   /\ ~passList[j].outputToScreen
                            THEN n ELSE n - 1 ] :
                      inp \in passList[i].inputs } ] ]

\* MultiPassRenderer.resize: every framebuffer is reallocated at the size
resize(current, size) == size

\* Mutant: the framebuffers are not resized before the execution
doRender_NoResize(pos, size, ready) ==
    [ panelPos |-> pos, panelSize |-> size, bgTextureReady |-> ready,
      viewport |-> Resolution(canvasInfo),
      framebuffers |-> framebuffers,
      u_resolution |-> Resolution(canvasInfo),
      u_shapeCount |-> IF Len(orbitalPanelsRef) > 0
                       THEN Len(orbitalPanelsRef) ELSE 0,
      passes |-> render(PassList, Len(renders) + 1) ]

\* What one call of doRender sets up and draws: viewport and framebuffers
\* at the resolution of canvasInfo, the uniforms, one execution of the
\* pass graph
doRender(pos, size, ready) ==
    [ panelPos |-> pos, panelSize |-> size, bgTextureReady |-> ready,
      viewport |-> Resolution(canvasInfo),
      framebuffers |-> resize(framebuffers, Resolution(canvasInfo)),
      u_resolution |-> Resolution(canvasInfo),
      u_shapeCount |-> IF Len(orbitalPanelsRef) > 0
                       THEN Len(orbitalPanelsRef) ELSE 0,
      passes |-> render(PassList, Len(renders) + 1) ]

\* A call of doRender: the execution is recorded, the framebuffers stay as
\* the call left them
CallDoRender(pos, size, ready) ==
    /\ renders' = Append(renders, doRender(pos, size, ready))
    /\ framebuffers' = doRender(pos, size, ready).framebuffers

\* onReadyRef.current?.(): DashboardComposition passes onReady, which
\* continues the 'Loading texture' handle; the live page passes none
onReady ==
    IF timelineModeRef
    THEN /\ openTokens' = openTokens \ { TextureToken }
         /\ readySignals' = readySignals + 1
    ELSE UNCHANGED << openTokens, readySignals >>

\* The OrbitalSystem's panels: eight, of the middle size
PANEL_SIZES ==
    << [w |-> 128, h |-> 61], [w |-> 180, h |-> 86], [w |-> 240, h |-> 115] >>
Panel(id, order, sizeIndex) ==
    [id |-> id, order |-> order, sizeIndex |-> sizeIndex]
InitialPanels == [i \in 1..8 |-> Panel(i, i - 1, 1)]

\* No <App/> is mounted: the resolver is applied on its own
NoSession ==
    /\ phase = "none"
    /\ renderer = "none"
    /\ renderRef = FALSE
    /\ texture = "idle"
    /\ bgTextureReady = FALSE
    /\ panelPos = [x |-> 2 * (GRID_SIZE * 2), y |-> 2 * GRID_SIZE]
    /\ panelSize = [width |-> settingsWidth, height |-> settingsHeight]
    /\ openTokens = {}
    /\ renders = << >>
    /\ readySignals = 0
    /\ seeks = 0

\* The state of App that only the live page changes, in a render session
NoLive ==
    /\ innerWidth = canvasWidth
    /\ canvasInfo = [width |-> canvasWidth, height |-> canvasHeight, dpr |-> 1]
    /\ framebuffers = [width |-> 0, height |-> 0]
    /\ orbitalPanelsRef = << >>
    /\ panelsRef = << >>
    /\ settings = [width |-> settingsWidth, height |-> settingsHeight]
    /\ sizeSpring = [width |-> settingsWidth, height |-> settingsHeight]
    /\ drag = Undefined

\* Mutant: the pass graph is executed before panelPos/panelSize are written
timelineLayoutEffect_RenderFirst ==
    IF ~timelineModeRef
    THEN UNCHANGED << panelPos, panelSize, renders, framebuffers, openTokens >>
    ELSE /\ panelPos' = LayoutPos(timelineState, width, height)
         /\ panelSize' = LayoutSize(timelineState)
         /\ IF renderRef
            THEN CallDoRender(panelPos, panelSize, bgTextureReady)
            ELSE UNCHANGED << renders, framebuffers >>
         /\ openTokens' = openTokens \ { FrameToken(frame) }

\* useLayoutEffect on [timelineState, settings, viewportSize]: return
\* without timelineState; else write panelPos/panelSize,
\* renderRef.current?.(), onFrameReadyRef.current?.()
timelineLayoutEffect ==
    IF ~timelineModeRef
    THEN UNCHANGED << panelPos, panelSize, renders, framebuffers, openTokens >>
    ELSE /\ panelPos' = LayoutPos(timelineState, width, height)
         /\ panelSize' = LayoutSize(timelineState)
         /\ IF renderRef
            THEN CallDoRender(panelPos', panelSize', bgTextureReady)
            ELSE UNCHANGED << renders, framebuffers >>
         /\ openTokens' = openTokens \ { FrameToken(frame) }

\* The layout effects of the mount commit: the timelineState effect, and
\* the viewport effect, which sets canvasInfo from the override or the
\* window and whose setViewportSize schedules a second render of <App/>
MountLayoutEffects ==
    /\ phase = "mountLayout"
    /\ timelineLayoutEffect
    /\ canvasInfo' =
         IF timelineModeRef
         THEN [width |-> width, height |-> height, dpr |-> canvasInfo.dpr]
         ELSE [width |-> innerWidth, height |-> AspectHeight(innerWidth),
               dpr |-> canvasInfo.dpr]
    /\ phase' = "mountEffects"
    /\ UNCHANGED << resolverVars, firstSeen, editorVars, renderer, renderRef,
                    texture, bgTextureReady, readySignals, seeks, innerWidth,
                    orbitalPanelsRef, panelsRef, settings, sizeSpring,
                    drag >>

\* The renderer effect, constructor succeeding: the framebuffers are
\* allocated at the size of the canvas, doRender is installed and the
\* texture load started
RendererEffectOk ==
    /\ phase = "mountEffects"
    /\ renderer' = "ok"
    /\ framebuffers' = Resolution(canvasInfo)
    /\ renderRef' = TRUE
    /\ texture' = "pending"
    /\ phase' = "mountRerender"
    /\ UNCHANGED << resolverVars, firstSeen, editorVars, bgTextureReady,
                    panelPos, panelSize, openTokens, renders, readySignals,
                    seeks, innerWidth, canvasInfo, orbitalPanelsRef,
                    panelsRef, settings, sizeSpring,
                    drag >>

\* Mutant: the catch block returns without signalling readiness
RendererEffectThrows_Silent ==
    /\ phase = "mountEffects"
    /\ renderer' = "failed"
    /\ phase' = "mountRerender"
    /\ UNCHANGED << resolverVars, firstSeen, editorVars, liveVars, renderRef,
                    texture, bgTextureReady, panelPos, panelSize, openTokens,
                    renders, readySignals, seeks >>

\* The renderer effect, new MultiPassRenderer throwing: onReady and return
RendererEffectThrows ==
    /\ phase = "mountEffects"
    /\ renderer' = "failed"
    /\ onReady
    /\ phase' = "mountRerender"
    /\ UNCHANGED << resolverVars, firstSeen, editorVars, liveVars, renderRef,
                    texture, bgTextureReady, panelPos, panelSize, renders,
                    seeks >>

\* The second render of <App/>: viewportSize is a new object, so the
\* timelineState layout effect runs again
ViewportRerender ==
    /\ phase = "mountRerender"
    /\ timelineLayoutEffect
    /\ phase' = "idle"
    /\ UNCHANGED << resolverVars, firstSeen, editorVars, renderer, renderRef,
                    texture, bgTextureReady, readySignals, seeks, innerWidth,
                    canvasInfo, orbitalPanelsRef, panelsRef, settings,
                    sizeSpring,
                    drag >>

\* No commit of <App/> is under way, or only one that a setState has
\* scheduled: timers, animation frames and promise handlers run
BetweenCommits == phase \in { "idle", "scheduledRender" }

\* The handlers of the texture promise run between commits and also after
\* <App/> has unmounted: the effect's cleanup does not cancel the promise
PromiseSettles == BetweenCommits \/ phase = "unmounted"

\* Mutant: readiness is signalled without rendering with the texture
TextureLoaded_ReadyOnly ==
    /\ PromiseSettles
    /\ texture = "pending"
    /\ texture' = "loaded"
    /\ bgTextureReady' = TRUE
    /\ onReady
    /\ UNCHANGED << resolverVars, firstSeen, editorVars, liveVars, phase,
                    renderer, renderRef, panelPos, panelSize, renders, seeks >>

\* loadTextureFromURL(...).then: bind the texture, doRender(), onReady
TextureLoaded ==
    /\ PromiseSettles
    /\ texture = "pending"
    /\ texture' = "loaded"
    /\ bgTextureReady' = TRUE
    /\ CallDoRender(panelPos, panelSize, TRUE)
    /\ onReady
    /\ UNCHANGED << resolverVars, firstSeen, editorVars, phase, renderer,
                    renderRef, panelPos, panelSize, seeks, innerWidth,
                    canvasInfo, orbitalPanelsRef, panelsRef, settings,
                    sizeSpring,
                    drag >>

\* Mutant: the catch handler marks the texture ready as the then handler does
TextureFailed_MarksReady ==
    /\ PromiseSettles
    /\ texture = "pending"
    /\ texture' = "failed"
    /\ bgTextureReady' = TRUE
    /\ onReady
    /\ UNCHANGED << resolverVars, firstSeen, editorVars, liveVars, phase,
                    renderer, renderRef, panelPos, panelSize, renders, seeks >>

\* loadTextureFromURL(...).catch: onReady
TextureFailed ==
    /\ PromiseSettles
    /\ texture = "pending"
    /\ texture' = "failed"
    /\ onReady
    /\ UNCHANGED << resolverVars, firstSeen, editorVars, liveVars, phase,
                    renderer, renderRef, bgTextureReady, panelPos, panelSize,
                    renders, seeks >>

\* The host, every handle continued, seeks to frame f: DashboardComposition
\* renders, takes delayRender(`Frame f`) and resolves the frame
SeekFrame(f) ==
    /\ timelineModeRef
    /\ phase = "idle"
    /\ openTokens = {}
    /\ seeks < MaxSeeks
    /\ f # frame
    /\ frame' = f
    /\ timelineState' = DashboardComposition(events, fps, width, height, f)
    /\ openTokens' = openTokens \cup { FrameToken(f) }
    /\ seeks' = seeks + 1
    /\ phase' = "seekLayout"
    /\ UNCHANGED << events, fps, width, height, firstSeen, editorVars,
                    liveVars, renderer, renderRef, texture, bgTextureReady,
                    panelPos, panelSize, renders, readySignals >>

\* The layout effect of the commit that follows a seek
FrameLayoutEffect ==
    /\ phase = "seekLayout"
    /\ timelineLayoutEffect
    /\ phase' = "idle"
    /\ UNCHANGED << resolverVars, firstSeen, editorVars, renderer, renderRef,
                    texture, bgTextureReady, readySignals, seeks, innerWidth,
                    canvasInfo, orbitalPanelsRef, panelsRef, settings,
                    sizeSpring,
                    drag >>

GateDocuments == UNION { [1..n -> EventKinds] : n \in 0..GateMaxEvents }
GateFrames == 0..GateMaxFrame

\* DashboardComposition has rendered for the first time: both handles are
\* taken and the frame is resolved; no effect of <App/> has run yet
InitGate ==
    /\ events \in GateDocuments
    /\ fps \in {15, 60}
    /\ width = canvasWidth
    /\ height = canvasHeight
    /\ frame \in GateFrames
    /\ timelineState = DashboardComposition(events, fps, width, height, frame)
    /\ firstSeen = {}
    /\ phase = "mountLayout"
    /\ renderer = "none"
    /\ renderRef = FALSE
    /\ texture = "idle"
    /\ bgTextureReady = FALSE
    /\ panelPos = [x |-> 2 * (GRID_SIZE * 2), y |-> 2 * GRID_SIZE]
    /\ panelSize = [width |-> settingsWidth, height |-> settingsHeight]
    /\ openTokens = { TextureToken, FrameToken(frame) }
    /\ renders = << >>
    /\ readySignals = 0
    /\ seeks = 0
    /\ NoEditor
    /\ NoLive

NextGate ==
    \/ MountLayoutEffects
    \/ RendererEffectOk
    \/ RendererEffectThrows
    \/ ViewportRerender
    \/ TextureLoaded
    \/ TextureFailed
    \/ \E f \in GateFrames : SeekFrame(f)
    \/ FrameLayoutEffect

SpecGate == InitGate /\ [][NextGate]_vars

\* The same session under the scheduling the runtime gives: React runs the
\* effects of a commit it has started, and the promise of the texture load
\* settles
SpecGateFair ==
    /\ SpecGate
    /\ WF_vars(MountLayoutEffects)
    /\ WF_vars(RendererEffectOk \/ RendererEffectThrows)
    /\ WF_vars(ViewportRerender)
    /\ WF_vars(TextureLoaded \/ TextureFailed)
    /\ WF_vars(FrameLayoutEffect)

(***************************************************************************)
(* App.tsx with or without a timelineState: the live page mounts <App/>    *)
(* with no props, so the animation-frame loop draws, the 16 ms interval    *)
(* copies the springs, the window resizes and the OrbitalSystem runs.      *)
(***************************************************************************)
\* rafLoop: requestAnimationFrame(rafLoop); if (!timelineModeRef.current)
\* doRender()
rafLoop_NoModeCheck ==
    /\ BetweenCommits
    /\ renderer = "ok"
    /\ Len(renders) < MaxRenders
    /\ CallDoRender(panelPos, panelSize, bgTextureReady)
    /\ UNCHANGED << resolverVars, firstSeen, editorVars, phase, renderer,
                    renderRef, texture, bgTextureReady, panelPos, panelSize,
                    openTokens, readySignals, seeks, innerWidth, canvasInfo,
                    orbitalPanelsRef, panelsRef, settings, sizeSpring,
                    drag >>

rafLoop ==
    /\ BetweenCommits
    /\ renderer = "ok"
    /\ IF ~timelineModeRef
       THEN /\ Len(renders) < MaxRenders
            /\ CallDoRender(panelPos, panelSize, bgTextureReady)
       ELSE UNCHANGED << renders, framebuffers >>
    /\ UNCHANGED << resolverVars, firstSeen, editorVars, phase, renderer,
                    renderRef, texture, bgTextureReady, panelPos, panelSize,
                    openTokens, readySignals, seeks, innerWidth, canvasInfo,
                    orbitalPanelsRef, panelsRef, settings, sizeSpring,
                    drag >>

\* setInterval(..., 16): without timelineState panelPos/panelSize are read
\* from the springs; mouseSpring, which no claim reads, is left out
interval ==
    /\ BetweenCommits
    /\ IF ~timelineModeRef
       THEN /\ panelPos' = posSpring
            /\ panelSize' = sizeSpring
       ELSE UNCHANGED << panelPos, panelSize >>
    /\ UNCHANGED << resolverVars, firstSeen, editorVars, liveVars, phase,
                    renderer, renderRef, texture, bgTextureReady, openTokens,
                    renders, readySignals, seeks >>

\* updateSize, the window's resize listener, registered when no override is
\* given: canvasInfo follows at once with the window's width and pixel
\* ratio, the render of <App/> it schedules through setViewportSize comes
\* later
updateSize(w, dpr) ==
    /\ ~timelineModeRef
    /\ BetweenCommits
    /\ w # innerWidth \/ dpr # canvasInfo.dpr
    /\ innerWidth' = w
    /\ canvasInfo' = [width |-> w, height |-> AspectHeight(w), dpr |-> dpr]
    /\ phase' = "scheduledRender"
    /\ UNCHANGED << resolverVars, firstSeen, editorVars, gateRest,
                    framebuffers, orbitalPanelsRef, panelsRef, settings,
                    sizeSpring,
                    drag >>

\* The commit of the render a setViewportSize or a setSettings scheduled:
\* viewportSize or settings is a new object, so the timelineState layout
\* effect runs
ScheduledCommit ==
    /\ phase = "scheduledRender"
    /\ timelineLayoutEffect
    /\ phase' = "idle"
    /\ UNCHANGED << resolverVars, firstSeen, editorVars, renderer, renderRef,
                    texture, bgTextureReady, readySignals, seeks, innerWidth,
                    canvasInfo, orbitalPanelsRef, panelsRef, settings,
                    sizeSpring,
                    drag >>

\* updateSetting('width', w) of the settings panel: setSettings schedules
\* a render of <App/> and sizeSpring gets a new target
updateSetting(w) ==
    /\ ~timelineModeRef
    /\ BetweenCommits
    /\ w # settings.width
    /\ settings' = [settings EXCEPT !.width = w]
    /\ phase' = "scheduledRender"
    /\ UNCHANGED << resolverVars, firstSeen, editorVars, gateRest, innerWidth,
                    canvasInfo, framebuffers, orbitalPanelsRef, panelsRef,
                    sizeSpring,
                    drag >>

\* react-spring moves sizeSpring to the target {settings.width,
\* settings.height} (isExpanded stays false: no handler toggles it)
sizeSpringFrame ==
    /\ BetweenCommits
    /\ sizeSpring # [width |-> settings.width, height |-> settings.height]
    /\ sizeSpring' = [width |-> settings.width, height |-> settings.height]
    /\ UNCHANGED << resolverVars, firstSeen, editorVars, gateVars, innerWidth,
                    canvasInfo, framebuffers, orbitalPanelsRef, panelsRef,
                    settings,
                    drag >>

\* The exchange of order the OrbitalSystem loop makes when a dragged panel
\* comes close to the slot of another one
Reordered(panels, id, with) ==
    [ i \in DOMAIN panels |->
        IF panels[i].id = id
        THEN [panels[i] EXCEPT !.order = panels[with].order]
        ELSE IF panels[i].id = with
        THEN [panels[i] EXCEPT !.order = panels[id].order]
        ELSE panels[i] ]

\* What the loop hands to doRender: one entry per panel, with its size (the
\* centre, which the physics gives, is left out)
OrbitalPanelRenderData(panels) ==
    [ i \in DOMAIN panels |-> PANEL_SIZES[panels[i].sizeIndex + 1] ]

\* The panels the loop hands on: the dragged panel, once it has moved and
\* has come close to the slot of panel swapWith, has exchanged its order
\* with it (swapWith = 0: no slot of another panel is close, or the reorder
\* clock has not run down)
AfterReorder(swapWith) ==
    IF /\ drag # Undefined
       /\ drag[1].moved
       /\ swapWith # 0
       /\ swapWith # drag[1].id
    THEN Reordered(panelsRef, drag[1].id, swapWith)
    ELSE panelsRef

\* Mutant: the loop appends to orbitalPanelsRef.current
loop_Appends(swapWith) ==
    /\ ~timelineModeRef
    /\ BetweenCommits
    /\ panelsRef' = AfterReorder(swapWith)
    /\ orbitalPanelsRef' =
         IF Len(orbitalPanelsRef) >= 16 THEN orbitalPanelsRef
         ELSE orbitalPanelsRef \o OrbitalPanelRenderData(panelsRef')
    /\ UNCHANGED << resolverVars, firstSeen, editorVars, gateVars, innerWidth,
                    canvasInfo, framebuffers, settings, sizeSpring,
                    drag >>

\* The OrbitalSystem's animation-frame loop (mounted only without
\* timelineState): a reorder when the drag calls for one, the physics, and
\* orbitalPanelsRef.current = panelsRef.current.map(...)
loop(swapWith) ==
    /\ ~timelineModeRef
    /\ BetweenCommits
    /\ panelsRef' = AfterReorder(swapWith)
    /\ orbitalPanelsRef' = OrbitalPanelRenderData(panelsRef')
    /\ UNCHANGED << resolverVars, firstSeen, editorVars, gateVars, innerWidth,
                    canvasInfo, framebuffers, settings, sizeSpring,
                    drag >>

\* onPanelPointerDown on panel id with the primary button: the drag begins,
\* not yet moved
onPanelPointerDown(id) ==
    /\ ~timelineModeRef
    /\ BetweenCommits
    /\ drag' = Some([id |-> id, moved |-> FALSE])
    /\ UNCHANGED << resolverVars, firstSeen, editorVars, gateVars, innerWidth,
                    canvasInfo, framebuffers, orbitalPanelsRef, panelsRef,
                    settings, sizeSpring >>

\* onPointerMove by more than 5 pixels from the press: the drag has moved
\* (a shorter move leaves drag.current.moved as it is)
onPointerMove ==
    /\ ~timelineModeRef
    /\ BetweenCommits
    /\ drag # Undefined
    /\ ~drag[1].moved
    /\ drag' = Some([drag[1] EXCEPT !.moved = TRUE])
    /\ UNCHANGED << resolverVars, firstSeen, editorVars, gateVars, innerWidth,
                    canvasInfo, framebuffers, orbitalPanelsRef, panelsRef,
                    settings, sizeSpring >>

\* Mutant: the pressed panel takes the next size without wrapping around
onPointerUp_NoWrap ==
    /\ ~timelineModeRef
    /\ BetweenCommits
    /\ drag # Undefined
    /\ drag' = Undefined
    /\ panelsRef' =
         IF drag[1].moved THEN panelsRef
         ELSE [ i \in DOMAIN panelsRef |->
                  IF panelsRef[i].id = drag[1].id
                  THEN [panelsRef[i] EXCEPT
                           !.sizeIndex = panelsRef[i].sizeIndex + 1]
                  ELSE panelsRef[i] ]
    /\ UNCHANGED << resolverVars, firstSeen, editorVars, gateVars, innerWidth,
                    canvasInfo, framebuffers, orbitalPanelsRef, settings,
                    sizeSpring >>

\* onPointerUp: return without a drag; the drag ends, and a press that did
\* not move is a click: the pressed panel takes the next size
onPointerUp ==
    /\ ~timelineModeRef
    /\ BetweenCommits
    /\ drag # Undefined
    /\ drag' = Undefined
    /\ panelsRef' =
         IF drag[1].moved THEN panelsRef
         ELSE [ i \in DOMAIN panelsRef |->
                  IF panelsRef[i].id = drag[1].id
                  THEN [panelsRef[i] EXCEPT
                           !.sizeIndex = (panelsRef[i].sizeIndex + 1)
                                             % Len(PANEL_SIZES)]
                  ELSE panelsRef[i] ]
    /\ UNCHANGED << resolverVars, firstSeen, editorVars, gateVars, innerWidth,
                    canvasInfo, framebuffers, orbitalPanelsRef, settings,
                    sizeSpring >>

WindowWidths == { 960, 1920 }
DevicePixelRatios == { 1, 2 }
SettingsWidths == { settingsWidth, 300 }
\* The panels pressed, and the panels whose slot a dragged panel comes
\* close to (0: none)
PressedPanels == { 1, 2 }
SwapTargets == { 0, 1, 2, 3 }
AppDocuments ==
    { << >>, << Event(0, "GlassPanel", "Expand", NoParams, << >>) >> }

\* <App/> is about to mount on the live page: no props, the window's size
InitLive ==
    /\ events = << >>
    /\ fps = 60
    /\ width = canvasWidth
    /\ height = canvasHeight
    /\ frame = 0
    /\ timelineState = Undefined
    /\ firstSeen = {}
    /\ phase = "mountLayout"
    /\ renderer = "none"
    /\ renderRef = FALSE
    /\ texture = "idle"
    /\ bgTextureReady = FALSE
    /\ panelPos = [x |-> 2 * (GRID_SIZE * 2), y |-> 2 * GRID_SIZE]
    /\ panelSize = [width |-> settingsWidth, height |-> settingsHeight]
    /\ openTokens = {}
    /\ renders = << >>
    /\ readySignals = 0
    /\ seeks = 0
    /\ NoEditor
    /\ innerWidth \in WindowWidths
    /\ \E dpr \in DevicePixelRatios :
         canvasInfo = [width |-> innerWidth,
                       height |-> AspectHeight(innerWidth), dpr |-> dpr]
    /\ framebuffers = [width |-> 0, height |-> 0]
    /\ orbitalPanelsRef = << >>
    /\ panelsRef = InitialPanels
    /\ settings = [width |-> settingsWidth, height |-> settingsHeight]
    /\ sizeSpring = [width |-> settingsWidth, height |-> settingsHeight]
    /\ drag = Undefined

\* <App/> is about to mount under DashboardComposition
InitRender ==
    /\ events \in AppDocuments
    /\ fps = 60
    /\ width = canvasWidth
    /\ height = canvasHeight
    /\ frame = 0
    /\ timelineState = DashboardComposition(events, fps, width, height, frame)
    /\ firstSeen = {}
    /\ phase = "mountLayout"
    /\ renderer = "none"
    /\ renderRef = FALSE
    /\ texture = "idle"
    /\ bgTextureReady = FALSE
    /\ panelPos = [x |-> 2 * (GRID_SIZE * 2), y |-> 2 * GRID_SIZE]
    /\ panelSize = [width |-> settingsWidth, height |-> settingsHeight]
    /\ openTokens = { TextureToken, FrameToken(frame) }
    /\ renders = << >>
    /\ readySignals = 0
    /\ seeks = 0
    /\ NoEditor
    /\ NoLive

InitApp == InitLive \/ InitRender

NextApp ==
    \/ MountLayoutEffects
    \/ RendererEffectOk
    \/ RendererEffectThrows
    \/ ViewportRerender
    \/ TextureLoaded
    \/ TextureFailed
    \/ \E f \in GateFrames : SeekFrame(f)
    \/ FrameLayoutEffect
    \/ rafLoop
    \/ interval
    \/ \E w \in WindowWidths, dpr \in DevicePixelRatios : updateSize(w, dpr)
    \/ ScheduledCommit
    \/ \E w \in SettingsWidths : updateSetting(w)
    \/ sizeSpringFrame

\* <App/> in either mode, with the window and the settings panel
SpecApp == InitApp /\ [][NextApp]_vars

NextOrbital ==
    \/ MountLayoutEffects
    \/ RendererEffectOk
    \/ RendererEffectThrows
    \/ ViewportRerender
    \/ TextureLoaded
    \/ TextureFailed
    \/ \E f \in GateFrames : SeekFrame(f)
    \/ FrameLayoutEffect
    \/ rafLoop
    \/ \E swapWith \in { 0, 2 } : loop(swapWith)
    \/ \E id \in { 1 } : onPanelPointerDown(id)
    \/ onPointerMove
    \/ onPointerUp

\* <App/> in either mode, with the OrbitalSystem the live page mounts
SpecOrbital == InitApp /\ [][NextOrbital]_vars

NextPanels ==
    \/ MountLayoutEffects
    \/ RendererEffectOk
    \/ RendererEffectThrows
    \/ ViewportRerender
    \/ \E swapWith \in SwapTargets : loop(swapWith)
    \/ \E id \in PressedPanels : onPanelPointerDown(id)
    \/ onPointerMove
    \/ onPointerUp

\* The live page's OrbitalSystem under presses, drags and clicks
SpecPanels == InitLive /\ [][NextPanels]_vars

\* <App/> unmounts and the cleanup of the renderer effect runs:
\* cancelAnimationFrame(raf), renderRef.current = null, renderer.dispose().
\* The effect returns the cleanup only when the renderer was constructed.
RendererCleanup ==
    /\ phase = "idle"
    /\ renderer = "ok"
    /\ renderer' = "disposed"
    /\ renderRef' = FALSE
    /\ phase' = "unmounted"
    /\ UNCHANGED << resolverVars, firstSeen, editorVars, liveVars, texture,
                    bgTextureReady, panelPos, panelSize, openTokens, renders,
                    readySignals, seeks >>

NextTeardown ==
    \/ MountLayoutEffects
    \/ RendererEffectOk
    \/ RendererEffectThrows
    \/ ViewportRerender
    \/ TextureLoaded
    \/ TextureFailed
    \/ \E f \in GateFrames : SeekFrame(f)
    \/ FrameLayoutEffect
    \/ rafLoop
    \/ RendererCleanup

\* <App/> in either mode from its mount to its unmount
SpecTeardown == InitApp /\ [][NextTeardown]_vars

(***************************************************************************)
(* The editor's handlers.                                                  *)
(***************************************************************************)
\* The ids of the rows the editor holds once an edit of rs is made: those
\* in rs, in rows and in the undo snapshots (the edit empties the redo
\* stack)
UsedIds(rs) ==
    { rs[i].id : i \in DOMAIN rs }
      \cup { rows[i].id : i \in DOMAIN rows }
      \cup UNION { { undoStack[k][i].id : i \in DOMAIN undoStack[k] } :
                     k \in DOMAIN undoStack }

\* generateId(): an id no row carries
generateId(rs) ==
    LET used == UsedIds(rs)
        free == 1..(Cardinality(used) + 1) \ used
    IN  CHOOSE n \in free : \A m \in free : n <= m

\* Array.prototype.slice(-n) for n > 0
LastN(seq, n) == SubSeq(seq, Max(1, Len(seq) - n + 1), Len(seq))

\* [...rs].sort((a, b) => a.frame - b.frame): stable; when a frame is NaN
\* the comparator is not consistent and the order is left to the engine
SortOutcomes(rs) ==
    IF \A i \in DOMAIN rs : rs[i].frame # NaN THEN { SortByFrame(rs) }
    ELSE { [i \in DOMAIN rs |-> rs[p[i]]] :
             p \in { q \in [DOMAIN rs -> DOMAIN rs] :
                        \A i, j \in DOMAIN rs : i # j => q[i] # q[j] } }

\* <App/> renders with the state the handlers have set: the three refs are
\* assigned in the body of the component
Rerender ==
    /\ rowsRef' = rows'
    /\ undoStackRef' = undoStack'
    /\ redoStackRef' = redoStack'

\* fetch(API_URL).then(r => r.json()).then(data => ...): the document is
\* taken over field by field
LoadThen ==
    /\ loadState = "pending"
    /\ file.json
    /\ loadState' = "loaded"
    /\ editorFps' = file.fps
    /\ durationFrames' = file.durationFrames
    /\ rows' = SortByFrame(file.events)
    /\ editRun' = << >>
    /\ lastSynced' = Some(file)
    /\ UNCHANGED << resolverVars, firstSeen, gateVars, liveVars, serverVars,
                    file,
                    undoStack, redoStack, isDirty, request >>

\* ... .catch(console.error): the GET answered 500 or r.json() threw
LoadCatch ==
    /\ loadState = "pending"
    /\ ~file.json
    /\ loadState' = "failed"
    /\ UNCHANGED << resolverVars, firstSeen, gateVars, liveVars, serverVars,
                    file, rows,
                    undoStack, redoStack, isDirty, editorFps, durationFrames,
                    editRun, request, lastSynced >>

\* Mutant: the snapshots kept are the oldest ones
updateRows_KeepOldest(newRows) ==
    /\ undoStack' = Append(SubSeq(undoStack, 1,
                                  Min(Len(undoStack), MAX_UNDO - 1)), rowsRef)
    /\ redoStack' = << >>
    /\ rows' \in SortOutcomes(newRows)
    /\ isDirty' = TRUE
    /\ editRun' = Append(editRun, rowsRef)

\* updateRows: push rowsRef.current, clear the redo stack, sort the new rows
updateRows(newRows) ==
    /\ undoStack' = Append(LastN(undoStack, MAX_UNDO - 1), rowsRef)
    /\ redoStack' = << >>
    /\ rows' \in SortOutcomes(newRows)
    /\ isDirty' = TRUE
    /\ editRun' = Append(editRun, rowsRef)

\* addRow: a new row at Math.floor(durationFrames / 2)
addRow ==
    /\ Len(rowsRef) < MaxRows
    /\ updateRows(Append(rowsRef,
            Row(generateId(rowsRef),
                IF durationFrames = Undefined THEN NaN
                ELSE durationFrames[1] \div 2)))
    /\ UNCHANGED << resolverVars, firstSeen, gateVars, liveVars, serverVars,
                    file,
                    loadState, editorFps, durationFrames, request,
                    lastSynced >>

\* undo: the newest snapshot of undoStackRef.current becomes the rows,
\* rowsRef.current goes on the redo stack
undo ==
    /\ Len(undoStackRef) # 0
    /\ Len(redoStack) < MaxRedo
    /\ redoStack' = Append(redoStack, rowsRef)
    /\ rows' = undoStackRef[Len(undoStackRef)]
    /\ undoStack' = SubSeq(undoStackRef, 1, Len(undoStackRef) - 1)
    /\ isDirty' = TRUE
    /\ editRun' = << >>
    /\ UNCHANGED << resolverVars, firstSeen, gateVars, liveVars, serverVars,
                    file,
                    loadState, editorFps, durationFrames, request,
                    lastSynced >>

\* Mutant: redo takes the oldest snapshot of the redo stack
redo_Oldest ==
    /\ Len(redoStackRef) # 0
    /\ undoStack' = Append(LastN(undoStack, MAX_UNDO - 1), rowsRef)
    /\ rows' = redoStackRef[1]
    /\ redoStack' = SubSeq(redoStackRef, 2, Len(redoStackRef))
    /\ isDirty' = TRUE
    /\ editRun' = << >>
    /\ UNCHANGED << resolverVars, firstSeen, gateVars, liveVars, serverVars,
                    file,
                    loadState, editorFps, durationFrames, request,
                    lastSynced >>

\* redo: the newest snapshot of redoStackRef.current becomes the rows,
\* rowsRef.current goes on the undo stack
redo ==
    /\ Len(redoStackRef) # 0
    /\ undoStack' = Append(LastN(undoStack, MAX_UNDO - 1), rowsRef)
    /\ rows' = redoStackRef[Len(redoStackRef)]
    /\ redoStack' = SubSeq(redoStackRef, 1, Len(redoStackRef) - 1)
    /\ isDirty' = TRUE
    /\ editRun' = << >>
    /\ UNCHANGED << resolverVars, firstSeen, gateVars, liveVars, serverVars,
                    file,
                    loadState, editorFps, durationFrames, request,
                    lastSynced >>

\* save, up to its await: the document is built from fps, durationFrames
\* and rowsRef.current and POSTed.  JSON.stringify leaves out a field whose
\* value is undefined.
save ==
    /\ request = Undefined
    /\ request' = Some(Document(editorFps, durationFrames, rowsRef))
    /\ UNCHANGED << resolverVars, firstSeen, gateVars, liveVars, serverVars,
                    file,
                    loadState, rows, undoStack, redoStack, isDirty, editorFps,
                    durationFrames, editRun, lastSynced >>

\* The plugin stores the body, which JSON.parse accepts, and answers 200;
\* save continues: if (res.ok) setIsDirty(false)
SaveOk ==
    /\ request # Undefined
    /\ file' = request[1]
    /\ lastSynced' = request
    /\ isDirty' = FALSE
    /\ request' = Undefined
    /\ UNCHANGED << resolverVars, firstSeen, gateVars, liveVars, serverVars,
                    loadState,
                    rows, undoStack, redoStack, editorFps, durationFrames,
                    editRun >>

\* The POST does not reach the plugin (fetch rejects) or is answered with
\* an error: nothing is stored and isDirty is left as it is
SaveFails ==
    /\ request # Undefined
    /\ request' = Undefined
    /\ UNCHANGED << resolverVars, firstSeen, gateVars, liveVars, serverVars,
                    file,
                    loadState, rows, undoStack, redoStack, isDirty, editorFps,
                    durationFrames, editRun, lastSynced >>

\* onRulerFrameChange: the row dragged on the FrameRuler gets the frame
onRulerFrameChange(id, f) ==
    /\ \E i \in DOMAIN rowsRef : rowsRef[i].id = id
    /\ updateRows([i \in DOMAIN rowsRef |->
                      IF rowsRef[i].id = id THEN Row(id, f) ELSE rowsRef[i]])
    /\ UNCHANGED << resolverVars, firstSeen, gateVars, liveVars, serverVars,
                    file,
                    loadState, editorFps, durationFrames, request,
                    lastSynced >>

(***************************************************************************)
(* TimelineTable: its handlers work on the rows prop, which is the rows of *)
(* the last render, and hand the new list to onChange = updateRows.        *)
(***************************************************************************)
RemoveAt(seq, i) == SubSeq(seq, 1, i - 1) \o SubSeq(seq, i + 1, Len(seq))
\* next.splice(at, 0, x), at counted from 0
Splice(seq, at, x) ==
    SubSeq(seq, 1, at) \o << x >> \o SubSeq(seq, at + 1, Len(seq))

\* updateRow(id, patch): the patched list, sorted, goes to onChange
updateRow(id, f) ==
    /\ \E i \in DOMAIN rowsRef : rowsRef[i].id = id
    /\ \E sorted \in SortOutcomes(
              [i \in DOMAIN rowsRef |->
                  IF rowsRef[i].id = id THEN Row(id, f) ELSE rowsRef[i]]) :
          updateRows(sorted)
    /\ UNCHANGED << resolverVars, firstSeen, gateVars, liveVars, serverVars,
                    file,
                    loadState, editorFps, durationFrames, request,
                    lastSynced >>

\* <input type="number" min={0}>: updateRow(row.id, {frame:
\* Number(e.target.value)}); min does not keep a number below 0 from being
\* typed, and v is the number the text of the input stands for
frameInput(id, v) == updateRow(id, v)

\* The timecode input: f = timecodeToFrame(e.target.value, fps);
\* if (!isNaN(f) && f >= 0) updateRow(row.id, {frame: f})
timecodeInput(id, f) ==
    /\ f # NaN
    /\ f >= 0
    /\ updateRow(id, f)

\* deleteRow(index): onChange(rows.filter((_, i) => i !== index))
deleteRow(index) ==
    /\ index \in DOMAIN rowsRef
    /\ updateRows(RemoveAt(rowsRef, index))
    /\ UNCHANGED << resolverVars, firstSeen, gateVars, liveVars, serverVars,
                    file,
                    loadState, editorFps, durationFrames, request,
                    lastSynced >>

\* insertRow(index), index counted from 0: a row of frame 0 is spliced in
insertRow(index) ==
    /\ index \in 0..Len(rowsRef)
    /\ \E sorted \in SortOutcomes(
              Splice(rowsRef, index, Row(generateId(rowsRef), 0))) :
          updateRows(sorted)
    /\ UNCHANGED << resolverVars, firstSeen, gateVars, liveVars, serverVars,
                    file,
                    loadState, editorFps, durationFrames, request,
                    lastSynced >>

\* Math.max(0, x), Math.min(d, x) and Math.round((a + b) / 2)
MathMax0(x) == IF x = NaN THEN NaN ELSE Max(0, x)
MathMin(d, x) ==
    IF d = Undefined \/ x = NaN THEN NaN
    ELSE IF d[1] = NaN THEN NaN ELSE Min(d[1], x)
RoundedMean(a, b) ==
    IF a = NaN \/ b = NaN THEN NaN ELSE (a + b + 1) \div 2

\* The frame onDrop gives the dragged row at its new place
DropFrame(withoutDragged, insertAt, dragged) ==
    LET hasPrev == insertAt > 0
        hasNext == insertAt < Len(withoutDragged)
        nextFrame == withoutDragged[insertAt + 1].frame
        prevFrame == withoutDragged[insertAt].frame
    IN  IF ~hasPrev /\ ~hasNext THEN dragged.frame
        ELSE IF ~hasPrev
        THEN IF nextFrame = NaN THEN NaN ELSE MathMax0(nextFrame - 30)
        ELSE IF ~hasNext
        THEN IF prevFrame = NaN THEN NaN
             ELSE MathMin(durationFrames, prevFrame + 30)
        ELSE RoundedMean(prevFrame, nextFrame)

\* onDrop on the row at targetIndex of the row dragged from sourceIndex
\* (both counted from 1 here)
onDrop(sourceIndex, targetIndex) ==
    /\ sourceIndex \in DOMAIN rowsRef
    /\ targetIndex \in DOMAIN rowsRef
    /\ sourceIndex # targetIndex
    /\ LET draggedRow == rowsRef[sourceIndex]
           withoutDragged == RemoveAt(rowsRef, sourceIndex)
           insertAt == IF targetIndex > sourceIndex THEN targetIndex - 2
                       ELSE targetIndex - 1
           newFrame == DropFrame(withoutDragged, insertAt, draggedRow)
       IN  \E sorted \in SortOutcomes(
                 Splice(withoutDragged, insertAt,
                        Row(draggedRow.id, newFrame))) :
             updateRows(sorted)
    /\ UNCHANGED << resolverVars, firstSeen, gateVars, liveVars, serverVars,
                    file,
                    loadState, editorFps, durationFrames, request,
                    lastSynced >>

\* Toolbar: if (v > 0) onFpsChange(v)
onFpsChange(v) ==
    /\ v > 0
    /\ editorFps' = Some(v)
    /\ isDirty' = TRUE
    /\ UNCHANGED << resolverVars, firstSeen, gateVars, liveVars, serverVars,
                    file,
                    loadState, rows, undoStack, redoStack, durationFrames,
                    editRun, request, lastSynced >>

\* Toolbar: if (v > 0) onDurationChange(v)
onDurationChange(v) ==
    /\ v > 0
    /\ durationFrames' = Some(v)
    /\ isDirty' = TRUE
    /\ UNCHANGED << resolverVars, firstSeen, gateVars, liveVars, serverVars,
                    file,
                    loadState, rows, undoStack, redoStack, editorFps, editRun,
                    request, lastSynced >>

\* Documents on disk: fps and durationFrames present or not, positive or not
FileEvents == { Row(1, 30), Row(2, 10) }
FileDocuments ==
    { Document(f, d, evts) :
        f \in { Undefined, Some(0), Some(-30), Some(60) },
        d \in { Undefined, Some(0), Some(360) },
        evts \in UNION { [1..n -> FileEvents] : n \in 0..MaxFileEvents } }
    \cup { Unreadable }

\* No session of the resolver, the dashboard or App
NoComposition ==
    /\ events = << >>
    /\ fps = 60
    /\ width = canvasWidth
    /\ height = canvasHeight
    /\ frame = 0
    /\ timelineState = DashboardComposition(events, fps, width, height, frame)
    /\ firstSeen = {}
    /\ NoSession
    /\ NoLive

\* The editor has mounted and its fetch of the document is under way
InitEditor ==
    /\ NoComposition
    /\ NoServer
    /\ file \in FileDocuments
    /\ loadState = "pending"
    /\ rows = << >>
    /\ undoStack = << >>
    /\ redoStack = << >>
    /\ isDirty = FALSE
    /\ editorFps = Some(60)
    /\ durationFrames = Some(360)
    /\ editRun = << >>
    /\ rowsRef = rows
    /\ undoStackRef = undoStack
    /\ redoStackRef = redoStack
    /\ request = Undefined
    /\ lastSynced = Undefined

\* React renders <App/> again before the next event is handled
NextEditor ==
    \/ LoadThen /\ Rerender
    \/ LoadCatch /\ Rerender
    \/ save /\ Rerender
    \/ SaveOk /\ Rerender
    \/ SaveFails /\ Rerender
    \/ \E v \in {30, 60} : onFpsChange(v) /\ Rerender
    \/ \E v \in {120, 360} : onDurationChange(v) /\ Rerender

SpecEditor == InitEditor /\ [][NextEditor]_vars

\* The editor after it has loaded a document of 60 fps and 360 frames
InitUndo ==
    /\ NoComposition
    /\ NoServer
    /\ file \in { Document(Some(60), Some(360), evts) :
                     evts \in { << >>, << Row(1, 30) >> } }
    /\ loadState = "loaded"
    /\ rows = SortByFrame(file.events)
    /\ undoStack = << >>
    /\ redoStack = << >>
    /\ isDirty = FALSE
    /\ editorFps = file.fps
    /\ durationFrames = file.durationFrames
    /\ editRun = << >>
    /\ rowsRef = rows
    /\ undoStackRef = undoStack
    /\ redoStackRef = redoStack
    /\ request = Undefined
    /\ lastSynced = Some(file)

NextUndo ==
    \/ addRow /\ Rerender
    \/ undo /\ Rerender
    \/ redo /\ Rerender

SpecUndo == InitUndo /\ [][NextUndo]_vars

\* What the inputs deliver: the number typed into the frame input, the
\* frame timecodeToFrame makes of the text typed, the frame of a ruler drag
FrameInputs == { -5, 20 }
TimecodeFrames == { NaN, -1, 45 }
RulerFrames == { 15 }
EditDocuments ==
    { Document(Some(60), d, evts) :
        d \in { Some(360), Undefined },
        evts \in { << >>, << Row(1, 30), Row(2, 10) >> } }

\* The editor after it has loaded a document
InitEdit ==
    /\ NoComposition
    /\ NoServer
    /\ file \in EditDocuments
    /\ loadState = "loaded"
    /\ rows = SortByFrame(file.events)
    /\ undoStack = << >>
    /\ redoStack = << >>
    /\ isDirty = FALSE
    /\ editorFps = file.fps
    /\ durationFrames = file.durationFrames
    /\ editRun = << >>
    /\ rowsRef = rows
    /\ undoStackRef = undoStack
    /\ redoStackRef = redoStack
    /\ request = Undefined
    /\ lastSynced = Some(file)

\* An edit the bounds of the model leave room for
CanEdit == Len(undoStack) + Len(redoStack) < MaxEdits
CanGrow == CanEdit /\ Len(rowsRef) < MaxEditRows

NextEdit ==
    \/ CanEdit /\ (\E i \in DOMAIN rowsRef, v \in FrameInputs :
                      frameInput(rowsRef[i].id, v)) /\ Rerender
    \/ CanEdit /\ (\E i \in DOMAIN rowsRef, f \in TimecodeFrames :
                      timecodeInput(rowsRef[i].id, f)) /\ Rerender
    \/ CanEdit /\ (\E i \in DOMAIN rowsRef, f \in RulerFrames :
                      onRulerFrameChange(rowsRef[i].id, f)) /\ Rerender
    \/ CanEdit /\ (\E i \in DOMAIN rowsRef : deleteRow(i)) /\ Rerender
    \/ CanGrow /\ (\E i \in 0..Len(rowsRef) : insertRow(i)) /\ Rerender
    \/ CanEdit /\ (\E i, j \in DOMAIN rowsRef : onDrop(i, j)) /\ Rerender
    \/ CanGrow /\ addRow /\ Rerender
    \/ undo /\ Rerender
    \/ redo /\ Rerender

\* The editor's table, ruler and toolbar at work on a loaded document
SpecEdit == InitEdit /\ [][NextEdit]_vars

\* Edits of three kinds, undone and redone, on a well-formed document
NextRoundTrip ==
    \/ CanEdit /\ (\E i \in DOMAIN rowsRef, v \in { 15, 200, 300 } :
                      frameInput(rowsRef[i].id, v)) /\ Rerender
    \/ CanEdit /\ (\E i \in DOMAIN rowsRef : deleteRow(i)) /\ Rerender
    \/ CanGrow /\ addRow /\ Rerender
    \/ undo /\ Rerender
    \/ redo /\ Rerender

SpecRoundTrip == InitUndo /\ [][NextRoundTrip]_vars

\* Documents the editor finds on disk when saving is looked at
SaveDocuments ==
    { Document(Some(60), Some(360), evts) :
        evts \in { << >>, << Row(1, 30), Row(2, 10) >> } }
      \cup { Unreadable }

\* The editor has mounted and its fetch of the document is under way
InitSave ==
    /\ NoComposition
    /\ NoServer
    /\ file \in SaveDocuments
    /\ loadState = "pending"
    /\ rows = << >>
    /\ undoStack = << >>
    /\ redoStack = << >>
    /\ isDirty = FALSE
    /\ editorFps = Some(60)
    /\ durationFrames = Some(360)
    /\ editRun = << >>
    /\ rowsRef = rows
    /\ undoStackRef = undoStack
    /\ redoStackRef = redoStack
    /\ request = Undefined
    /\ lastSynced = Undefined

\* Loading, editing and saving, the POST of a save taking its time
NextSave ==
    \/ LoadThen /\ Rerender
    \/ LoadCatch /\ Rerender
    \/ Len(undoStack) + Len(redoStack) < MaxSaveEdits /\ addRow /\ Rerender
    \/ undo /\ Rerender
    \/ redo /\ Rerender
    \/ \E v \in {30} : onFpsChange(v) /\ Rerender
    \/ \E v \in {120} : onDurationChange(v) /\ Rerender
    \/ save /\ Rerender
    \/ SaveOk /\ Rerender
    \/ SaveFails /\ Rerender

SpecSave == InitSave /\ [][NextSave]_vars

\* <App/> renders: rowsRef.current = rows, undoStackRef.current = undoStack,
\* redoStackRef.current = redoStack (l.27-29); nothing else changes
Render ==
    /\ editorRefs # << rows, undoStack, redoStack >>
    /\ rowsRef' = rows
    /\ undoStackRef' = undoStack
    /\ redoStackRef' = redoStack
    /\ UNCHANGED << resolverVars, firstSeen, gateVars, liveVars, serverVars,
                    file, loadState, rows, undoStack, redoStack, isDirty,
                    editorFps, durationFrames, editRun, request, lastSynced >>

\* Undo and redo with the render as a step of its own: a handler that runs
\* before <App/> has rendered again reads the refs of the previous render
NextBatch ==
    \/ CanGrow /\ addRow /\ Rerender
    \/ undo /\ UNCHANGED editorRefs
    \/ Len(undoStack) < MaxEdits /\ redo /\ UNCHANGED editorRefs
    \/ Render

SpecBatch == InitUndo /\ [][NextBatch]_vars

(***************************************************************************)
(* The API plugin of the editor's dev server (timelineApiPlugin).  A text  *)
(* is a sequence of characters, a request body a sequence of bytes: the    *)
(* characters of JSON's syntax and "a" take one byte in UTF-8, "e-acute"   *)
(* takes the two bytes C3 A9.                                              *)
(***************************************************************************)
Replacement == "U+FFFD"
Utf8(char) == IF char = "e-acute" THEN << "C3", "A9" >> ELSE << char >>

\* The bytes a client sends for a text
RECURSIVE Encode(_)
Encode(text) ==
    IF text = << >> THEN << >> ELSE Utf8(Head(text)) \o Encode(Tail(text))

\* String(chunk) of `body += chunk`: Buffer.toString('utf-8') of one chunk
\* on its own; a lead byte without its continuation and a continuation
\* without its lead byte each decode to U+FFFD
RECURSIVE BufferToString(_)
BufferToString(chunk) ==
    IF chunk = << >> THEN << >>
    ELSE IF Head(chunk) = "C3"
    THEN IF Len(chunk) >= 2 /\ chunk[2] = "A9"
         THEN << "e-acute" >> \o BufferToString(Tail(Tail(chunk)))
         ELSE << Replacement >> \o BufferToString(Tail(chunk))
    ELSE IF Head(chunk) = "A9"
    THEN << Replacement >> \o BufferToString(Tail(chunk))
    ELSE << Head(chunk) >> \o BufferToString(Tail(chunk))

\* JSON.parse(text) does not throw, for the texts of the model: an array
\* that is empty or holds one string
JSONParses(text) ==
    /\ Len(text) >= 2
    /\ text[1] = "["
    /\ text[Len(text)] = "]"
    /\ \/ Len(text) = 2
       \/ /\ Len(text) >= 4
          /\ text[2] = "\""
          /\ text[Len(text) - 1] = "\""
          /\ \A i \in 3..(Len(text) - 2) :
                text[i] \in { "a", "e-acute", Replacement }

Response(method, status, content) ==
    [method |-> method, status |-> status, content |-> content]

\* GET: the file's text with 200, or 500 when readFileSync throws
Get ==
    /\ Len(responses) < MaxRequests
    /\ responses' = Append(responses,
            IF stored = Undefined
            THEN Response("GET", 500, << >>)
            ELSE Response("GET", 200, stored[1]))
    /\ UNCHANGED << stored, upload >>

\* A POST arrives: body = ''
PostBegin(text) ==
    /\ upload = Undefined
    /\ Len(responses) < MaxRequests
    /\ upload' = Some([sent |-> text, rest |-> Encode(text), body |-> << >>])
    /\ UNCHANGED << stored, responses >>

\* req.on('data', chunk => { body += chunk }): the next n bytes arrive
PostData(n) ==
    /\ upload # Undefined
    /\ n \in 1..Len(upload[1].rest)
    /\ upload' = Some([upload[1] EXCEPT
            !.rest = SubSeq(@, n + 1, Len(@)),
            !.body = @ \o BufferToString(SubSeq(upload[1].rest, 1, n))])
    /\ UNCHANGED << stored, responses >>

\* req.on('end'): JSON.parse(body), writeFileSync(body) and 200, or 400
PostEnd ==
    /\ upload # Undefined
    /\ upload[1].rest = << >>
    /\ IF JSONParses(upload[1].body)
       THEN /\ stored' = Some(upload[1].body)
            /\ responses' = Append(responses, Response("POST", 200, << >>))
       ELSE /\ stored' = stored
            /\ responses' = Append(responses, Response("POST", 400, << >>))
    /\ upload' = Undefined

\* Texts a client may POST, and what timeline-data.json holds at the start
Bodies ==
    { << "[", "]" >>,
      << "[", "\"", "a", "e-acute", "\"", "]" >>,
      << "[", "\"", "e-acute", "\"" >>,
      << "]" >> }

InitServer ==
    /\ NoComposition
    /\ file = Unreadable
    /\ loadState = "none"
    /\ rows = << >>
    /\ undoStack = << >>
    /\ redoStack = << >>
    /\ isDirty = FALSE
    /\ editorFps = Some(60)
    /\ durationFrames = Some(360)
    /\ editRun = << >>
    /\ rowsRef = << >>
    /\ undoStackRef = << >>
    /\ redoStackRef = << >>
    /\ request = Undefined
    /\ lastSynced = Undefined
    /\ stored \in { Undefined, Some(<< "[", "]" >>) }
    /\ upload = Undefined
    /\ responses = << >>

\* The plugin leaves everything but the file and its requests alone
ServerFrame ==
    UNCHANGED << resolverVars, firstSeen, gateVars, liveVars, file,
                 loadState, rows, undoStack, redoStack, isDirty, editorFps,
                 durationFrames, editRun, editorRefs, request, lastSynced >>

NextServer ==
    \/ Get /\ ServerFrame
    \/ \E text \in Bodies : PostBegin(text) /\ ServerFrame
    \/ \E n \in 1..MaxChunk : PostData(n) /\ ServerFrame
    \/ PostEnd /\ ServerFrame

SpecServer == InitServer /\ [][NextServer]_vars

(***************************************************************************)
(* The resolver on its own: a document drawn, frames resolved in any       *)
(* order.                                                                  *)
(***************************************************************************)
Init ==
    /\ events \in Documents
    /\ fps \in {15, 60}
    /\ width = canvasWidth
    /\ height = canvasHeight
    /\ frame \in Frames
    /\ timelineState = DashboardComposition(events, fps, width, height, frame)
    /\ firstSeen = {}
    /\ NoSession
    /\ NoEditor
    /\ NoLive

\* The resolver of DashboardComposition applied to frame f
Resolve(f) ==
    /\ frame' = f
    /\ timelineState' = DashboardComposition(events, fps, width, height, f)
    /\ UNCHANGED << events, fps, width, height, gateVars >>

Next ==
    \E f \in Frames : Resolve(f) /\ UNCHANGED << firstSeen, editorVars, liveVars >>

Spec == Init /\ [][Next]_vars

\* SetPosition events of which two fire on the same frame
SameFrameEvents ==
    { Event(1, "GlassPanel", "SetPosition", [x |-> 0, y |-> 0], << >>),
      Event(1, "GlassPanel", "SetPosition", [x |-> 100, y |-> 200], << >>),
      Event(3, "GlassPanel", "SetPosition", [y |-> 50], << BouncySpring >>) }
SameFrameDocuments == UNION { [1..n -> SameFrameEvents] : n \in 0..MaxEvents }

InitSameFrame ==
    /\ events \in SameFrameDocuments
    /\ fps \in {15, 60}
    /\ width = canvasWidth
    /\ height = canvasHeight
    /\ frame \in Frames
    /\ timelineState = DashboardComposition(events, fps, width, height, frame)
    /\ firstSeen = {}
    /\ NoSession
    /\ NoEditor
    /\ NoLive

\* The resolver on documents with several SetPosition events of one frame
SpecSameFrame == InitSameFrame /\ [][Next]_vars

\* The section 8 chain at 60 fps, resolved on frames 0..ChainMaxFrame
InitChain ==
    /\ events \in ChainDocuments
    /\ fps = 60
    /\ width = canvasWidth
    /\ height = canvasHeight
    /\ frame \in ChainFrames
    /\ timelineState = DashboardComposition(events, fps, width, height, frame)
    /\ firstSeen = {}
    /\ NoSession
    /\ NoEditor
    /\ NoLive

NextChain ==
    \E f \in ChainFrames : Resolve(f) /\ UNCHANGED << firstSeen, editorVars, liveVars >>

SpecChain == InitChain /\ [][NextChain]_vars

(***************************************************************************)
(* The resolver on documents whose events carry spring configs with a      *)
(* stiffness or a mass that is zero or negative.                           *)
(***************************************************************************)
ZeroStiffness == [stiffness |-> 0, damping |-> 24, mass |-> 1]
NegativeStiffness == [stiffness |-> -100, damping |-> 24, mass |-> 1]
ZeroMass == [stiffness |-> 280, damping |-> 24, mass |-> 0]
NegativeMass == [stiffness |-> 280, damping |-> 24, mass |-> -1]

ConfigEvents ==
    { Event(0, "GlassPanel", "Expand", NoParams, << >>),
      Event(1, "GlassPanel", "Expand", NoParams, << ZeroStiffness >>),
      Event(2, "GlassPanel", "Collapse", NoParams, << NegativeStiffness >>),
      Event(1, "GlassPanel", "SetPosition", [x |-> 100, y |-> 200],
            << ZeroMass >>),
      Event(2, "GlassPanel", "SetPosition", [x |-> 0], << NegativeMass >>),
      Event(0, "Other", "Expand", NoParams, << NegativeMass >>) }
ConfigDocuments == UNION { [1..n -> ConfigEvents] : n \in 1..ConfigMaxEvents }
ConfigFrames == 0..ConfigMaxFrame

InitConfig ==
    /\ events \in ConfigDocuments
    /\ fps \in {15, 60}
    /\ width = canvasWidth
    /\ height = canvasHeight
    /\ frame \in ConfigFrames
    /\ timelineState = DashboardComposition(events, fps, width, height, frame)
    /\ firstSeen = {}
    /\ NoSession
    /\ NoEditor
    /\ NoLive

NextConfig ==
    \E f \in ConfigFrames : Resolve(f) /\ UNCHANGED << firstSeen, editorVars, liveVars >>

SpecConfig == InitConfig /\ [][NextConfig]_vars

\* The same machine with the record of what each frame first resolved to
Recorded(seen, f, ts) ==
    IF \E r \in seen : r.frame = f THEN seen
    ELSE seen \cup { [frame |-> f, state |-> ts] }

InitHistory ==
    /\ events \in HistoryDocuments
    /\ fps \in {15, 60}
    /\ width = canvasWidth
    /\ height = canvasHeight
    /\ frame \in HistoryFrames
    /\ timelineState = DashboardComposition(events, fps, width, height, frame)
    /\ firstSeen = { [frame |-> frame, state |-> timelineState] }
    /\ NoSession
    /\ NoEditor
    /\ NoLive

NextHistory ==
    \E f \in HistoryFrames :
        /\ Resolve(f)
        /\ firstSeen' = Recorded(firstSeen, f, timelineState')
        /\ UNCHANGED << editorVars, liveVars >>

SpecHistory == InitHistory /\ [][NextHistory]_vars

(***************************************************************************)
(* Vocabulary of the properties: the events of the document by index.      *)
(***************************************************************************)
Fired(i) == IsGlass(events[i]) /\ events[i].frame <= frame
FiredExpands == { i \in DOMAIN events : Fired(i) /\ IsExpand(events[i]) }
FiredCollapses == { i \in DOMAIN events : Fired(i) /\ IsCollapse(events[i]) }
FiredPositions == { i \in DOMAIN events : Fired(i) /\ IsSetPosition(events[i]) }
Progress(i) == spring(fps, frame - events[i].frame, SpringOf(events[i]))

RECURSIVE ProgressTotal(_)
ProgressTotal(S) ==
    IF S = {} THEN 0
    ELSE LET i == CHOOSE j \in S : TRUE
         IN  Progress(i) + ProgressTotal(S \ {i})

RawExpansion == ProgressTotal(FiredExpands) - ProgressTotal(FiredCollapses)

\* i comes after j in frame order; events of one frame in document order
After(i, j) ==
    \/ events[i].frame > events[j].frame
    \/ events[i].frame = events[j].frame /\ i > j
LastOf(S) == CHOOSE i \in S : \A j \in S \ {i} : After(i, j)

TargetX(i) == ParamOr(events[i], "x", defaultX(width))
TargetY(i) == ParamOr(events[i], "y", defaultY(height))

Permuted(evts, p) == [i \in DOMAIN evts |-> evts[p[i]]]

FiredOnly(evts, f) == SelectSeq(evts, LAMBDA e : e.frame <= f)

C2_NoLookahead ==
    /\ timelineState
         = DashboardComposition(FiredOnly(events, frame), fps, width, height,
                                frame)
    /\ (\A i \in DOMAIN events : ~Fired(i)) =>
         /\ netExpansion(events, fps, frame) = 0
         /\ timelineState.sizeMultiplier = One
         /\ timelineState.isExpanded = FALSE
         /\ timelineState.panelX = Undefined
         /\ timelineState.panelY = Undefined

\* nothing fired yet, an Expand and a SetPosition of GlassPanel still ahead
C2_Witness ==
    /\ \A i \in DOMAIN events : ~Fired(i)
    /\ \E i \in DOMAIN events :
         IsGlass(events[i]) /\ IsExpand(events[i]) /\ events[i].frame > frame
    /\ \E i \in DOMAIN events :
         IsGlass(events[i]) /\ IsSetPosition(events[i])
         /\ events[i].frame > frame
    /\ timelineState.sizeMultiplier = One

(***************************************************************************)
(* C3.  isExpanded holds exactly when some fired Expand event lies on a    *)
(* strictly later frame than every fired Collapse event.                   *)
(***************************************************************************)
C3_IsExpandedIff ==
    timelineState.isExpanded
      <=> \E i \in FiredExpands :
            \A j \in FiredCollapses : events[j].frame < events[i].frame

\* the latest Expand and the latest Collapse share a frame: not expanded
C3_Witness ==
    /\ FiredExpands # {}
    /\ FiredCollapses # {}
    /\ events[LastOf(FiredExpands)].frame = events[LastOf(FiredCollapses)].frame
    /\ timelineState.isExpanded = FALSE

(***************************************************************************)
(* C4.  Position chaining: with two or more fired SetPosition events the   *)
(* position runs from the second-to-last target to the last target by the  *)
(* last event's progress; with one, from the default origin.               *)
(***************************************************************************)
C4_PositionChains ==
    /\ Cardinality(FiredPositions) = 1 =>
         LET latest == LastOf(FiredPositions)
         IN  /\ timelineState.panelX
                  = Some(Lerp(defaultX(width), TargetX(latest), Progress(latest)))
             /\ timelineState.panelY
                  = Some(Lerp(defaultY(height), TargetY(latest),
                              Progress(latest)))
    /\ Cardinality(FiredPositions) >= 2 =>
         LET latest == LastOf(FiredPositions)
             prev == LastOf(FiredPositions \ {latest})
         IN  /\ timelineState.panelX
                  = Some(Lerp(TargetX(prev), TargetX(latest), Progress(latest)))
             /\ timelineState.panelY
                  = Some(Lerp(TargetY(prev), TargetY(latest), Progress(latest)))

\* a chain of three on three frames, the last one in flight
C4_Witness ==
    /\ Cardinality(FiredPositions) = 3
    /\ \A i, j \in FiredPositions : i # j => events[i].frame # events[j].frame
    /\ Progress(LastOf(FiredPositions)) \in 1..(One - 1)
    /\ timelineState.panelX # Some(TargetX(LastOf(FiredPositions)))

(***************************************************************************)
(* C5.  Position convergence: once the last fired SetPosition event's      *)
(* spring has settled at 1 the position is that event's target; the chain  *)
(* of section 8 gives (100, 200) at frame 200 and no position at frame 9.  *)
(***************************************************************************)
C5_PositionConverges ==
    /\ (FiredPositions # {} /\ Progress(LastOf(FiredPositions)) = One) =>
         /\ timelineState.panelX = Some(TargetX(LastOf(FiredPositions)))
         /\ timelineState.panelY = Some(TargetY(LastOf(FiredPositions)))
    /\ (events = ChainDocument /\ frame = 200) =>
         /\ timelineState.panelX = Some(2 * 100)
         /\ timelineState.panelY = Some(2 * 200)
    /\ (events = ChainDocument /\ frame = 9) =>
         /\ timelineState.panelX = Undefined
         /\ timelineState.panelY = Undefined
         /\ LayoutPos(timelineState, width, height)
              = [x |-> width - settingsWidth, y |-> height - settingsHeight]

\* the whole chain fired and settled at frame 200
C5_Witness ==
    /\ events = ChainDocument
    /\ frame = 200
    /\ Cardinality(FiredPositions) = 3
    /\ Progress(LastOf(FiredPositions)) = One
    /\ timelineState.panelY = Some(2 * 200)

IsKnown(e) == IsGlass(e) /\ (IsExpand(e) \/ IsCollapse(e) \/ IsSetPosition(e))
KnownOnly(evts) == SelectSeq(evts, IsKnown)

C7_UnknownInert ==
    timelineState
      = DashboardComposition(KnownOnly(events), fps, width, height, frame)

\* fired events of another component and of an unknown action among fired
\* known ones
C7_Witness ==
    /\ \E i \in DOMAIN events :
         ~IsGlass(events[i]) /\ IsExpand(events[i]) /\ events[i].frame <= frame
    /\ \E i \in DOMAIN events :
         IsGlass(events[i]) /\ ~IsKnown(events[i]) /\ events[i].frame <= frame
    /\ FiredCollapses # {}
    /\ timelineState.isExpanded = FALSE

(***************************************************************************)
(* C8.  Net expansion and isExpanded do not depend on the order of the     *)
(* event list, and every fired event adds its own spring term, events of   *)
(* one frame included.                                                     *)
(***************************************************************************)
C8_OrderFree ==
    /\ netExpansion(events, fps, frame) = Max(0, Min(One, RawExpansion))
    /\ \A p \in Permutations(DOMAIN events) :
         /\ netExpansion(Permuted(events, p), fps, frame)
              = netExpansion(events, fps, frame)
         /\ isExpanded(Permuted(events, p), frame) = timelineState.isExpanded

\* two Expand events of one frame against one Collapse, all in flight
C8_Witness ==
    /\ \E i, j \in FiredExpands :
         i # j /\ events[i].frame = events[j].frame /\ Progress(i) \in 1..(One - 1)
    /\ Cardinality(FiredCollapses) = 1
    /\ RawExpansion \in 1..(One - 1)

(***************************************************************************)
(* C9.  Render gate: with the renderer constructed and the texture load    *)
(* not failed, the "Loading texture" handle is continued, and so every     *)
(* handle can be continued, only once the texture is loaded and the pass   *)
(* graph has been executed with it.                                        *)
(***************************************************************************)
C9_RenderGate ==
    (renderer = "ok" /\ texture # "failed" /\ TextureToken \notin openTokens)
      => /\ texture = "loaded"
         /\ bgTextureReady
         /\ \E i \in DOMAIN renders : renders[i].bgTextureReady

\* every handle continued after the texture arrived and was drawn
C9_Witness ==
    /\ renderer = "ok"
    /\ texture = "loaded"
    /\ openTokens = {}
    /\ phase = "idle"
    /\ renders[Len(renders)].bgTextureReady

FiredSizeEvents == FiredExpands \cup FiredCollapses

AllSettled == \A i \in FiredSizeEvents : Progress(i) = One

NewestIsExpand ==
    \E i \in FiredExpands :
        \A j \in FiredCollapses : events[j].frame < events[i].frame

NewestIsCollapse ==
    \E j \in FiredCollapses :
        \A i \in FiredExpands : events[i].frame < events[j].frame

C19_SettledSum ==
    (FiredSizeEvents # {} /\ AllSettled) =>
        /\ NewestIsExpand =>
              /\ netExpansion(events, fps, frame) = One
              /\ timelineState.sizeMultiplier = One + (8 * One) \div 10
              /\ timelineState.isExpanded
        /\ NewestIsCollapse =>
              /\ netExpansion(events, fps, frame) = 0
              /\ timelineState.sizeMultiplier = One
              /\ ~timelineState.isExpanded

(***************************************************************************)
(* C16: an event whose spring config has stiffness <= 0 or mass <= 0 makes *)
(* resolution fail at the first frame where the config is used: no         *)
(* VisualState is yielded for that frame, so none with a NaN               *)
(* sizeMultiplier, panelX or panelY.                                       *)
(***************************************************************************)
InvalidSpring(config) == config.stiffness <= 0 \/ config.mass <= 0

\* the events whose spring the resolver evaluates at the current frame
SpringUsed(i) ==
    \/ i \in FiredExpands \cup FiredCollapses
    \/ /\ i \in FiredPositions
       /\ events[i] =
            firedPositionEvents(events, frame)[Len(firedPositionEvents(events,
                                                                       frame))]

IsVisualState(ts) ==
    DOMAIN ts = { "sizeMultiplier", "isExpanded", "panelX", "panelY" }

C16_InvalidSpringFailsFast ==
    (\E i \in DOMAIN events :
        SpringUsed(i) /\ InvalidSpring(SpringOf(events[i])))
    => /\ ~IsVisualState(timelineState)
       /\ timelineState.sizeMultiplier # NaN
       /\ timelineState.panelX # Some(NaN)
       /\ timelineState.panelY # Some(NaN)

(***************************************************************************)
(* C17: a timeline document whose fps or durationFrames is missing or not  *)
(* positive is rejected as a whole when it is loaded: the load ends        *)
(* without the editor taking over its rows, fps or durationFrames.         *)
(***************************************************************************)
Positive(n) == n # Undefined /\ n[1] > 0

WellFormed(doc) ==
    doc.json /\ Positive(doc.fps) /\ Positive(doc.durationFrames)

C17_MalformedRejected ==
    [][(loadState = "pending" /\ loadState' # "pending" /\ ~WellFormed(file))
         => /\ loadState' = "failed"
            /\ UNCHANGED << rows, editorFps, durationFrames >>]_vars

(***************************************************************************)
(* C18: the undo stack never holds more than 50 snapshots, and after a run *)
(* of consecutive edits it ends with the row lists those edits replaced,   *)
(* the newest 50 of them when the run is longer than 50: the oldest        *)
(* snapshot is the one dropped.  An undo restores the newest snapshot.     *)
(***************************************************************************)
C18_UndoHistory ==
    /\ [](Len(undoStack) <= MAX_UNDO)
    /\ [](LET k == Min(Len(editRun), MAX_UNDO)
          IN  /\ Len(undoStack) >= k
              /\ \A j \in 1..k :
                    undoStack[Len(undoStack) - k + j]
                        = editRun[Len(editRun) - k + j])
    /\ [](Len(editRun) > MAX_UNDO => Len(undoStack) = MAX_UNDO)
    /\ [][Len(undoStack') < Len(undoStack)
            => /\ rows' = undoStack[Len(undoStack)]
               /\ undoStack' = SubSeq(undoStack, 1, Len(undoStack) - 1)]_vars

\* 51 edits in a row: the stack is full and the first row list is gone
C18_Witness ==
    /\ Len(editRun) = MAX_UNDO + 1
    /\ Len(undoStack) = MAX_UNDO
    /\ undoStack[1] = editRun[2]
    /\ undoStack[1] # editRun[1]

\* A commit of <App/> whose layout phase runs the timelineState effect
LayoutCommit ==
    \/ MountLayoutEffects
    \/ ViewportRerender
    \/ FrameLayoutEffect
    \/ ScheduledCommit

\* C13: with a timelineState, panelPos/panelSize are written only by a
\* commit's timelineState layout effect and the pass graph is executed only
\* by that effect or by the texture's then handler, never by the interval or
\* the animation-frame loop; without one, panelPos/panelSize are written
\* only by the 16 ms interval, and a commit's layout effect writes neither,
\* draws nothing and signals nothing.
C13_ModeExclusivity ==
    [][ /\ (panelPos' # panelPos \/ panelSize' # panelSize)
            => IF timelineModeRef THEN LayoutCommit ELSE interval
        /\ (timelineModeRef /\ renders' # renders)
            => (LayoutCommit \/ TextureLoaded)
        /\ (~timelineModeRef /\ LayoutCommit)
            => UNCHANGED << panelPos, panelSize, renders, openTokens,
                            readySignals >>
        /\ (~timelineModeRef /\ renders' # renders)
            => (rafLoop \/ TextureLoaded) ]_vars

\* The live page after its mount: the interval has copied a moved
\* sizeSpring and the animation-frame loop has drawn it
C13_Witness ==
    /\ ~timelineModeRef
    /\ phase = "idle"
    /\ Len(renders) >= 2
    /\ panelSize.width # settingsWidth
    /\ renders[Len(renders)].panelSize = panelSize

\* C14: in every execution of the pass graph the passes run in the order
\* bgPass, vBlurPass, hBlurPass, mainPass; every input of a pass names a
\* pass that ran earlier in the same execution and is read as that
\* execution drew it; only the last pass draws to the screen.
C14_PassOrder ==
    \A n \in 1..Len(renders) :
        LET passes == renders[n].passes
        IN  /\ [i \in DOMAIN passes |-> passes[i].name] = PassNames
            /\ \A i \in DOMAIN passes :
                  /\ \A r \in passes[i].reads :
                        /\ r.execution = n
                        /\ \E j \in 1..(i - 1) : passes[j].name = r.pass
                  /\ (passes[i].target = "screen") <=> (i = Len(passes))

\* A second execution has run: each pass's framebuffer held a texture of
\* the execution before
C14_Witness ==
    /\ Len(renders) >= 2
    /\ \E i \in DOMAIN renders[2].passes : renders[2].passes[i].reads # {}

\* C15: every execution of the pass graph runs with the framebuffers at
\* the resolution its viewport and its u_resolution were given, which is
\* the resolution canvasInfo held when doRender was called.
C15_ResizeBeforeRender ==
    /\ [](\A n \in 1..Len(renders) :
            /\ renders[n].framebuffers = renders[n].u_resolution
            /\ renders[n].framebuffers = renders[n].viewport)
    /\ [][ renders' # renders
            => /\ renders'[Len(renders')].u_resolution = Resolution(canvasInfo)
               /\ framebuffers' = Resolution(canvasInfo) ]_vars

\* An execution, a resize of the window, an execution at the new size
C15_Witness ==
    /\ Len(renders) >= 2
    /\ renders[1].u_resolution # renders[2].u_resolution
    /\ renders[2].framebuffers = Resolution(canvasInfo)

\* C20: u_shapeCount is between 0 and 8 in every execution, 0 in every
\* execution with a timelineState; without one it is the number of panels
\* in orbitalPanelsRef, which is 8 from the first tick of the OrbitalSystem
\* loop on.
C20_ShapeCount ==
    /\ [](/\ \A n \in 1..Len(renders) :
               /\ renders[n].u_shapeCount \in 0..8
               /\ (timelineModeRef => renders[n].u_shapeCount = 0)
           /\ Len(orbitalPanelsRef) \in { 0, 8 }
           /\ (timelineModeRef => orbitalPanelsRef = << >>))
    /\ [][ /\ (~timelineModeRef /\ renders' # renders)
               => renders'[Len(renders')].u_shapeCount
                      = Len(orbitalPanelsRef)
           /\ (orbitalPanelsRef' # orbitalPanelsRef
                  \/ orbitalPanelsRef # << >>)
               => Len(orbitalPanelsRef') = 8 ]_vars

\* The live page has drawn eight panels after a reorder and a click
C20_Witness ==
    /\ ~timelineModeRef
    /\ Len(renders) >= 1
    /\ renders[Len(renders)].u_shapeCount = 8
    /\ panelsRef[1].order # 0
    /\ panelsRef[1].sizeIndex # 1

\* A frame the spec allows: a non-negative integer
IsFrame(f) == f # NaN /\ f >= 0

\* C21: every row of the editor, and every event of the document it has
\* stored or is storing, has a frame that is a non-negative integer.
C21_FramesNonNegative ==
    /\ \A i \in DOMAIN rows : IsFrame(rows[i].frame)
    /\ \A i \in DOMAIN file.events : IsFrame(file.events[i].frame)
    /\ request # Undefined
         => \A i \in DOMAIN request[1].events :
                IsFrame(request[1].events[i].frame)

\* a.frame <= b.frame as JavaScript has it: false when either is NaN
FrameLeq(a, b) == a # NaN /\ b # NaN /\ a <= b

\* C24: the editor's rows are in non-decreasing order of frame in every
\* state.
C24_RowsSorted ==
    \A i, j \in DOMAIN rows :
        i < j => FrameLeq(rows[i].frame, rows[j].frame)

\* The last element of a non-empty sequence
Newest(seq) == seq[Len(seq)]

\* C22: right after an edit the newest undo snapshot is the list the edit
\* replaced; an undo sets rows to the newest undo snapshot and puts the
\* list it replaces on the redo stack; a redo sets rows to the newest redo
\* snapshot and puts the list it replaces on the undo stack; with an empty
\* undo stack nothing is undone, with an empty redo stack nothing is
\* redone, and an edit empties the redo stack.
C22_UndoRedoRoundTrip ==
    /\ [](editRun # << >>
            => /\ undoStack # << >>
               /\ Newest(undoStack) = Newest(editRun)
               /\ redoStack = << >>)
    /\ [][ /\ Len(redoStack') > Len(redoStack)
               => /\ undoStack # << >>
                  /\ rows' = Newest(undoStack)
                  /\ undoStack' = SubSeq(undoStack, 1, Len(undoStack) - 1)
                  /\ redoStack' = Append(redoStack, rows)
           /\ (Len(redoStack') < Len(redoStack) /\ editRun' = << >>)
               => /\ rows' = Newest(redoStack)
                  /\ redoStack' = SubSeq(redoStack, 1, Len(redoStack) - 1)
                  /\ Newest(undoStack') = rows
           /\ (rows' # rows /\ editRun' = << >>)
               => (Len(redoStack') # Len(redoStack)) ]_vars

\* An edit has been undone and redone: the edited list is back and the
\* list before the edit is the newest undo snapshot
C22_Witness ==
    /\ loadState = "loaded"
    /\ editRun = << >>
    /\ redoStack = << >>
    /\ Len(undoStack) = 2
    /\ rows # Newest(undoStack)

\* The answer the plugin has just given
Answered == Len(responses') = Len(responses) + 1
Answer == responses'[Len(responses')]

\* C23: a POST whose body is not valid JSON is answered with 400 and leaves
\* the file as it is; a POST whose body is valid JSON is answered with 200
\* and leaves the file holding exactly the text sent; nothing else, a GET
\* included, changes the file.
C23_WholesaleReplace ==
    [][ /\ (Answered /\ Answer.method = "POST")
            => IF JSONParses(upload[1].sent)
               THEN Answer.status = 200 /\ stored' = Some(upload[1].sent)
               ELSE Answer.status = 400 /\ stored' = stored
        /\ (Answered /\ Answer.method = "GET") => stored' = stored
        /\ ~Answered => stored' = stored ]_vars

\* C25: whenever isDirty is false and a document has been loaded or
\* saved, the rows, fps and durationFrames are those of the document last
\* loaded or saved.
C25_CleanMeansSaved ==
    (~isDirty /\ lastSynced # Undefined)
        => /\ rows = SortByFrame(lastSynced[1].events)
           /\ editorFps = lastSynced[1].fps
           /\ durationFrames = lastSynced[1].durationFrames

\* The snapshots in the order of the edits: the undo stack, the rows, and
\* the redo stack from its newest to its oldest
RowHistory ==
    undoStack \o << rows >>
        \o [i \in 1..Len(redoStack) |-> redoStack[Len(redoStack) + 1 - i]]

C27_NoRenderAfterDispose ==
    [][renderer = "disposed" => renders' = renders]_vars


\* The position App renders the panel at for the resolver's state of
\* frame f
RenderedPos(f) ==
    LayoutPos(DashboardComposition(events, fps, width, height, f),
              width, height)

\* C28: at the frame where the first SetPosition event fires, the position
\* the panel is rendered at equals the centred position it was rendered at
\* one frame earlier, whatever the expansion: the resolver's default origin
\* and the renderer's fallback coincide.
C28_PositionContinuity ==
    LET fired == firedPositionEvents(events, frame)
    IN  (frame > 0 /\ Len(fired) = 1 /\ fired[1].frame = frame)
            => LayoutPos(timelineState, width, height) = RenderedPos(frame - 1)


\* C29: the OrbitalSystem always has eight panels whose order values are a
\* permutation of 0..7 and whose sizeIndex is 0, 1 or 2; a reorder
\* exchanges the order values of exactly two panels, a click advances the
\* sizeIndex of the pressed panel by 1 modulo 3 and a drag leaves every
\* sizeIndex as it is.
C29_PanelsWellFormed ==
    /\ [](/\ Len(panelsRef) = 8
           /\ { panelsRef[i].order : i \in DOMAIN panelsRef } = 0..7
           /\ \A i \in DOMAIN panelsRef : panelsRef[i].sizeIndex \in 0..2)
    /\ [][ /\ (\E i \in 1..8 : panelsRef'[i].order # panelsRef[i].order)
               => \E i, j \in 1..8 :
                     /\ i # j
                     /\ panelsRef' =
                          [panelsRef EXCEPT
                             ![i].order = panelsRef[j].order,
                             ![j].order = panelsRef[i].order]
           /\ (drag # Undefined /\ drag' = Undefined)
               => IF drag[1].moved
                  THEN panelsRef' = panelsRef
                  ELSE panelsRef' =
                         [panelsRef EXCEPT
                            ![drag[1].id].sizeIndex =
                               (panelsRef[drag[1].id].sizeIndex + 1) % 3] ]_vars

\* A panel has been dragged into another slot and clicked twice, so that
\* its sizeIndex has wrapped around to 0
C29_Witness ==
    /\ panelsRef[1].order # 0
    /\ panelsRef[1].sizeIndex = 0
    /\ panelsRef[2].sizeIndex = 2


\* C30: the resolved panel position is the same for every permutation of
\* the document's event list, also when several SetPosition events fire on
\* the same frame.
C30_PositionOrderFree ==
    \A p \in Permutations(DOMAIN events) :
        /\ panelX(Permuted(events, p), fps, width, frame)
             = timelineState.panelX
        /\ panelY(Permuted(events, p), fps, height, frame)
             = timelineState.panelY

====
